---- MODULE Spec2Model ----
(***************************************************************************)
(* Model of the self-built-software discovery pipeline:                    *)
(*   - the deployment-signal strength classifier and the deployability     *)
(*     decision (detect_deployment_signals_runnable.py),                   *)
(*   - the repo-type score (classify_repo_type_runnable.py),               *)
(*   - the discovery workflow graph (repo_type_workflow.py, routers.py)    *)
(*     with the failure behaviour of each node.                            *)
(*                                                                         *)
(* Two specifications share the variables:                                 *)
(*   Spec         one run of the workflow graph for one repository         *)
(*   SpecSignals  the signal classifier and the deployability decision     *)
(*                applied to every bounded scanner output                  *)
(***************************************************************************)
EXTENDS Integers, Sequences, FiniteSets, TLC

VARIABLES
    \* ---- RootRepoState and the position in the workflow graph ----
    pc,                      \* node about to run, or "END" / "RAISED" / "idle"
    executed,                \* sequence of the nodes that have run, in order
    repo_root_url,           \* state.repo_root_url
    local_path,              \* state.local_path ("none" = None)
    snapshot_exists,         \* the directory at local_path exists on disk
    deployable,              \* state.deployable
    deployable_signal_files, \* state.deployable_signal_files
    repo_type,               \* state.repo_type ("none" = None)
    repo_type_evidence,      \* state.repo_type_evidence (the counters; <<>> = None)
    self_built_software,     \* state.self_built_software (component names)
    discovery_context,       \* state.discovery_context ("none" = None)
    enriched,                \* enrichment stages whose result was attached
    \* ---- locals of the deployability decision, kept for inspection ----
    phase,                   \* "idle" / "scanned" / "done" / "raised"
    scanned,                 \* what the scanner emitted for the snapshot
    signals,                 \* the signal list, strengths mutated in place
    passes,                  \* how often the strength classifier was applied
    llm_responses,           \* what reading/classifying candidate k yields
    attempted,               \* candidate files the fallback loop entered
    classifier_calls,        \* workflow_classifier_agent calls and results
    \* ---- locals of the mono-repo service discovery ----
    dphase,                  \* "idle" / "walking" / "found" / "analyzed" / "done"
    walk_stack,              \* directories os.walk has still to yield
    walk_visited,            \* number of directories os.walk has yielded
    package_dirs,            \* package_dirs / package_manager_dirs
    processed_dirs,          \* processed_dirs
    walk_files,              \* files of the directory yielded last
    walk_pruned,             \* subdirectories removed from dirs[:] last
    file_content,            \* what is on disk at each signal file path
    referenced_dirs,         \* referenced_dirs
    services,                \* the components discovery has built
    discovery_agent_calls,   \* calls of ai_service_discovery_agent
    llm_discovered,          \* what ai_service_discovery_agent answered
    \* ---- the discover command and its batch loop ----
    bpc,                     \* position in discover(): "idle" / "setup" /
                             \* "loop_top" / "try" / "running" / "summary" /
                             \* "exited"
    dry_run,                 \* --dry-run
    output,                  \* --output was given
    repos,                   \* repos (a repository is named by a number)
    idx,                     \* idx of the for loop (0 before the loop)
    interrupted,             \* the global flag
    invoked,                 \* number of workflow.invoke calls
    signal_at,               \* where discover() was when the flag was set
    stats,                   \* the stats counters
    errors,                  \* stats['errors']
    db_ops,                  \* persistence operations performed
    exported,                \* export_to_json: "none" / "written" / "failed"
    exit_code,               \* argument of sys.exit (-1 = still running)
    \* ---- fetch_github_repos ----
    fpc,                     \* "idle" / "start" / "request" / "returned" /
                             \* "raised"
    entry,                   \* "cli" (github_utils.py) or "main" (main.py)
    page,                    \* page
    backoff,                 \* backoff
    fetched_pages,           \* pages whose repositories went into repos
    requested,               \* page number of every requests.get, in order
    responses,               \* what each requests.get gave, in order
    waits,                   \* time.sleep after each response (0 = none)
    \* ---- the database behind create_repository ----
    dbpc,                    \* "idle" / "open"
    repositories,            \* table repositories: full_name of each row,
                             \* the row's id being its position
    fact_sheets,             \* table fact_sheets
    ai_discovery_data,       \* table ai_discovery_data
    next_uuid,               \* the next fact_sheet_id uuid4 gives
    last_call,               \* per full name: the components of the most
                             \* recent create_repository call
    persist_calls,           \* number of create_repository calls
    \* ---- the user-provided discovery context ----
    cpc,                     \* "idle" / "call" / "returned"
    org_context,             \* org_context given to merge_contexts
    repo_context,            \* repo_context given to merge_contexts
    context,                 \* context given to format_context_for_prompt
    max_chars,               \* max_chars
    returned_text,           \* the string the function returned
    \* ---- one file seen by the two repo-type classifiers ----
    tpc,                     \* "idle" / "listed"
    entry_dirs,              \* the directories on the file's relative path
    entry_filename,          \* the file's name
    runnable_hit,            \* what classify_repo_type_runnable counted it
                             \* as: "pending" / "none" / "manifest" / "docker"
    tool_hit,                \* the same for classify_repo_type_tool
    \* ---- the second scan made for the workflow classifier ----
    snapshot_changed,        \* a file was added between the two scans
    classifier_context       \* strong_signals handed to the classifier

wfvars == <<pc, executed, repo_root_url, local_path, snapshot_exists,
            deployable, deployable_signal_files, repo_type,
            repo_type_evidence, self_built_software, discovery_context,
            enriched>>
sigvars == <<phase, scanned, signals, passes, llm_responses, attempted,
             classifier_calls>>
discvars == <<dphase, walk_stack, walk_visited, package_dirs,
              processed_dirs, walk_files, walk_pruned, file_content,
              referenced_dirs, services, discovery_agent_calls,
              llm_discovered>>
batchvars == <<bpc, dry_run, output, repos, idx, interrupted, invoked,
               signal_at, stats, errors, db_ops, exported, exit_code>>
fetchvars == <<fpc, entry, page, backoff, fetched_pages, requested,
               responses, waits>>
dbvars == <<dbpc, repositories, fact_sheets, ai_discovery_data, next_uuid,
            last_call, persist_calls>>
ctxvars == <<cpc, org_context, repo_context, context, max_chars,
             returned_text>>
depthvars == <<tpc, entry_dirs, entry_filename, runnable_hit, tool_hit>>
rescvars == <<snapshot_changed, classifier_context>>
restvars == <<fetchvars, dbvars, ctxvars, depthvars, rescvars>>
vars == <<pc, executed, repo_root_url, local_path, snapshot_exists,
          deployable, deployable_signal_files, repo_type,
          repo_type_evidence, self_built_software, discovery_context,
          enriched,
          phase, scanned, signals, passes, llm_responses, attempted,
          classifier_calls,
          dphase, walk_stack, walk_visited, package_dirs,
          processed_dirs, walk_files, walk_pruned, file_content,
          referenced_dirs, services, discovery_agent_calls, llm_discovered,
          bpc, dry_run, output, repos, idx, interrupted, invoked,
          signal_at, stats, errors, db_ops, exported, exit_code,
          fpc, entry, page, backoff, fetched_pages, requested, responses,
          waits,
          dbpc, repositories, fact_sheets, ai_discovery_data, next_uuid,
          last_call, persist_calls,
          cpc, org_context, repo_context, context, max_chars,
          returned_text,
          tpc, entry_dirs, entry_filename, runnable_hit, tool_hit,
          snapshot_changed, classifier_context>>

\* the service discovery is not running
DiscoveryIdle ==
    /\ dphase = "idle"
    /\ walk_stack = <<>>
    /\ walk_visited = 0
    /\ package_dirs = <<>>
    /\ processed_dirs = {}
    /\ walk_files = <<>>
    /\ walk_pruned = {}
    /\ file_content = <<>>
    /\ referenced_dirs = {}
    /\ services = <<>>
    /\ discovery_agent_calls = 0
    /\ llm_discovered = <<>>

\* the discover command is not running
BatchIdle ==
    /\ bpc = "idle"
    /\ dry_run = FALSE
    /\ output = FALSE
    /\ repos = <<>>
    /\ idx = 0
    /\ interrupted = FALSE
    /\ invoked = 0
    /\ signal_at = [bpc |-> "none", invoked |-> 0]
    /\ stats = [total_repositories |-> 0, deployable |-> 0,
                non_deployable |-> 0, failed |-> 0]
    /\ errors = <<>>
    /\ db_ops = {}
    /\ exported = "none"
    /\ exit_code = -1

\* fetch_github_repos is not running
FetchIdle ==
    /\ fpc = "idle"
    /\ entry = "cli"
    /\ page = 1
    /\ backoff = 1
    /\ fetched_pages = <<>>
    /\ requested = <<>>
    /\ responses = <<>>
    /\ waits = <<>>

\* no database is open
DbIdle ==
    /\ dbpc = "idle"
    /\ repositories = <<>>
    /\ fact_sheets = {}
    /\ ai_discovery_data = {}
    /\ next_uuid = 1
    /\ last_call = <<>>
    /\ persist_calls = 0

\* None where a string is optional: a string is held as the sequence of
\* its characters
NoneStr == [is_none |-> TRUE, text |-> <<>>]

\* no context function is running
ContextIdle ==
    /\ cpc = "idle"
    /\ org_context = NoneStr
    /\ repo_context = NoneStr
    /\ context = [is_none |-> TRUE, merged_context |-> NoneStr]
    /\ max_chars = 4000
    /\ returned_text = <<>>

\* no file is being compared
DepthIdle ==
    /\ tpc = "idle"
    /\ entry_dirs = <<>>
    /\ entry_filename = "none"
    /\ runnable_hit = "pending"
    /\ tool_hit = "pending"

\* no second scan has been made
RescanIdle ==
    /\ snapshot_changed = FALSE
    /\ classifier_context = <<>>

RestIdle ==
    FetchIdle /\ DbIdle /\ ContextIdle /\ DepthIdle /\ RescanIdle

(***************************************************************************)
(* Bounds                                                                  *)
(***************************************************************************)
MaxSignals == 3
MaxPasses == 2
MaxManifestHits == 4
MaxDockerHits == 2

SeqsUpTo(S, n) == UNION {[1..k -> S] : k \in 0..n}

Range(s) == {s[i] : i \in DOMAIN s}

Last(s) == s[Len(s)]

Reverse(s) == [i \in DOMAIN s |-> s[Len(s) + 1 - i]]

(***************************************************************************)
(* Deployment signals                                                      *)
(***************************************************************************)
Categories ==
    {"package_manager", "kubernetes", "containerization", "serverless",
     "platform_specific", "ci_cd", "infrastructure_as_code", "gitops"}

\* A signal is [category, signal_type, strength]; its file_path is its
\* position in the list.  Catalog matches are emitted weak, the two
\* content-based detections medium.
ScannerSignals ==
    {[category |-> c, signal_type |-> "catalog", strength |-> "weak"] :
        c \in Categories}
    \cup {[category |-> "ci_cd", signal_type |-> "deployment_step",
           strength |-> "medium"],
          [category |-> "containerization", signal_type |-> "local_build",
           strength |-> "medium"]}

B2N(b) == IF b THEN 1 ELSE 0

categories_found(sigs) == {sigs[i].category : i \in DOMAIN sigs}

has_package_manager(sigs) == "package_manager" \in categories_found(sigs)

has_ci_cd(sigs) ==
    \/ "ci_cd" \in categories_found(sigs)
    \/ \E i \in DOMAIN sigs :
          sigs[i].category = "ci_cd" /\ sigs[i].signal_type = "deployment_step"

has_way_to_run(sigs) ==
    \/ "containerization" \in categories_found(sigs)
    \/ "serverless" \in categories_found(sigs)
    \/ "platform_specific" \in categories_found(sigs)
    \/ "kubernetes" \in categories_found(sigs)

component_count(sigs) ==
    B2N(has_package_manager(sigs)) + B2N(has_ci_cd(sigs))
        + B2N(has_way_to_run(sigs))

is_relevant_signal(s) ==
    \/ s.category \in {"package_manager", "ci_cd", "containerization",
                       "serverless", "platform_specific", "kubernetes"}
    \/ (s.category = "ci_cd" /\ s.signal_type = "deployment_step")

\* mutant: promotes a signal one tier above the strength it arrives with
signal_strength_promote(count, s) ==
    IF count >= 3
    THEN IF is_relevant_signal(s)
         THEN (IF s.strength = "weak" THEN "medium" ELSE "strong")
         ELSE "medium"
    ELSE IF count >= 2
         THEN IF is_relevant_signal(s) THEN "medium" ELSE "weak"
         ELSE "weak"

\* mutant: the two-component tier starts at one component
signal_strength_off_by_one(count, s) ==
    IF count >= 3
    THEN IF is_relevant_signal(s) THEN "strong" ELSE "medium"
    ELSE IF count >= 1
         THEN IF is_relevant_signal(s) THEN "medium" ELSE "weak"
         ELSE "weak"

\* body of the loop of _classify_signal_strength_by_combination
signal_strength(count, s) ==
    IF count >= 3
    THEN IF is_relevant_signal(s) THEN "strong" ELSE "medium"
    ELSE IF count >= 2
         THEN IF is_relevant_signal(s) THEN "medium" ELSE "weak"
         ELSE "weak"

_classify_signal_strength_by_combination(sigs) ==
    LET count == component_count(sigs)
    IN  [i \in DOMAIN sigs |->
            [sigs[i] EXCEPT !.strength = signal_strength(count, sigs[i])]]

\* detect_deployment_signals: the scan of the snapshot followed by the
\* strength classification
detect_deployment_signals(scan) == _classify_signal_strength_by_combination(scan)

\* mutant: medium evidence already counts as deployable
_evaluate_deployment_signals_medium(sigs) ==
    IF sigs = <<>>
    THEN FALSE
    ELSE \E i \in DOMAIN sigs : sigs[i].strength \in {"strong", "medium"}

\* mutant: the cheap path is never taken
_evaluate_deployment_signals_never(sigs) == FALSE

_evaluate_deployment_signals(sigs) ==
    IF sigs = <<>>
    THEN FALSE
    ELSE \E i \in DOMAIN sigs : sigs[i].strength = "strong"

(***************************************************************************)
(* Deployability decision                                                  *)
(***************************************************************************)
\* What handling one candidate workflow file yields: the file cannot be
\* read, the LLM call raises, or the LLM answers with a text.
LLMReplies == {"deployment", "Deployment ", "tooling", "unknown"}
CandidateOutcomes == LLMReplies \cup {"llm_error", "read_error"}

\* response.content.strip().lower()
strip_lower(text) == IF text = "Deployment " THEN "deployment" ELSE text

\* workflow_classifier_agent: any exception of the LLM call is caught and
\* answered with "unknown"
workflow_classifier_agent(outcome) ==
    IF outcome = "llm_error" THEN "unknown" ELSE strip_lower(outcome)

\* mutant: every ci_cd signal is a candidate, whatever its strength
RECURSIVE ci_cd_signals_any_strength(_, _)
ci_cd_signals_any_strength(sigs, i) ==
    IF i > Len(sigs)
    THEN <<>>
    ELSE IF sigs[i].category = "ci_cd"
         THEN <<i>> \o ci_cd_signals_any_strength(sigs, i + 1)
         ELSE ci_cd_signals_any_strength(sigs, i + 1)

\* the candidates handed to the fallback: ci_cd signals of medium or strong
\* strength, as the list of their files, in signal order
RECURSIVE ci_cd_signals(_, _)
ci_cd_signals(sigs, i) ==
    IF i > Len(sigs)
    THEN <<>>
    ELSE IF sigs[i].category = "ci_cd"
            /\ sigs[i].strength \in {"strong", "medium"}
         THEN <<i>> \o ci_cd_signals(sigs, i + 1)
         ELSE ci_cd_signals(sigs, i + 1)

\* mutant: one try block around the whole loop, so the first failing file
\* ends the classification
RECURSIVE workflow_loop_try_outside(_, _, _)
workflow_loop_try_outside(cands, outcome, k) ==
    IF k > Len(cands)
    THEN [deployed |-> FALSE, attempted |-> <<>>, calls |-> <<>>,
          raised |-> FALSE]
    ELSE IF outcome[k] = "read_error"
         THEN [deployed |-> FALSE, attempted |-> <<cands[k]>>,
               calls |-> <<>>, raised |-> FALSE]
         ELSE LET classification == workflow_classifier_agent(outcome[k])
                  call == [file |-> cands[k], result |-> classification]
                  rest == workflow_loop_try_outside(cands, outcome, k + 1)
              IN  IF classification = "deployment"
                  THEN [deployed |-> TRUE, attempted |-> <<cands[k]>>,
                        calls |-> <<call>>, raised |-> FALSE]
                  ELSE [deployed |-> rest.deployed,
                        attempted |-> <<cands[k]>> \o rest.attempted,
                        calls |-> <<call>> \o rest.calls,
                        raised |-> rest.raised]

\* the for loop of has_service_deployment_workflow_llm, from candidate k on
RECURSIVE workflow_loop(_, _, _)
workflow_loop(cands, outcome, k) ==
    IF k > Len(cands)
    THEN [deployed |-> FALSE, attempted |-> <<>>, calls |-> <<>>,
          raised |-> FALSE]
    ELSE IF outcome[k] = "read_error"
         THEN LET rest == workflow_loop(cands, outcome, k + 1)
              IN  [deployed |-> rest.deployed,
                   attempted |-> <<cands[k]>> \o rest.attempted,
                   calls |-> rest.calls,
                   raised |-> rest.raised]
         ELSE LET classification == workflow_classifier_agent(outcome[k])
                  call == [file |-> cands[k], result |-> classification]
                  rest == workflow_loop(cands, outcome, k + 1)
              IN  IF classification = "deployment"
                  THEN [deployed |-> TRUE, attempted |-> <<cands[k]>>,
                        calls |-> <<call>>, raised |-> FALSE]
                  ELSE [deployed |-> rest.deployed,
                        attempted |-> <<cands[k]>> \o rest.attempted,
                        calls |-> <<call>> \o rest.calls,
                        raised |-> rest.raised]

has_service_deployment_workflow_llm(cands, outcome) ==
    workflow_loop(cands, outcome, 1)

\* mutant: the files of the medium signals are listed too
RECURSIVE strong_signal_files_and_medium(_, _)
strong_signal_files_and_medium(sigs, i) ==
    IF i > Len(sigs)
    THEN <<>>
    ELSE IF sigs[i].strength \in {"strong", "medium"}
         THEN <<i>> \o strong_signal_files_and_medium(sigs, i + 1)
         ELSE strong_signal_files_and_medium(sigs, i + 1)

\* files of the strong signals, in signal order
RECURSIVE strong_signal_files(_, _)
strong_signal_files(sigs, i) ==
    IF i > Len(sigs)
    THEN <<>>
    ELSE IF sigs[i].strength = "strong"
         THEN <<i>> \o strong_signal_files(sigs, i + 1)
         ELSE strong_signal_files(sigs, i + 1)

\* The body of deployment_signals_detection_runnable as a function of the
\* state fields it reads, the scanner output and the candidate outcomes.
deployment_signals_detection(path, exists, old_dep, old_files, scan, outcome) ==
    IF path = "none" \/ ~exists
    THEN [deployable |-> old_dep, files |-> old_files,
          signals |-> scan, attempted |-> <<>>, calls |-> <<>>,
          raised |-> FALSE]
    ELSE LET deployment_signals == detect_deployment_signals(scan)
             files == strong_signal_files(deployment_signals, 1)
         IN  IF _evaluate_deployment_signals(deployment_signals)
             THEN [deployable |-> TRUE, files |-> files,
                   signals |-> deployment_signals, attempted |-> <<>>,
                   calls |-> <<>>, raised |-> FALSE]
             ELSE LET r == has_service_deployment_workflow_llm(
                               ci_cd_signals(deployment_signals, 1), outcome)
                  IN  [deployable |-> r.deployed, files |-> files,
                       signals |-> deployment_signals,
                       attempted |-> r.attempted, calls |-> r.calls,
                       raised |-> r.raised]

\* the candidate outcomes that matter for a scanner output
OutcomesFor(scan) ==
    [1..Len(ci_cd_signals(detect_deployment_signals(scan), 1))
        -> CandidateOutcomes]

(***************************************************************************)
(* SpecSignals: the classifier and the decision on every scanner output    *)
(***************************************************************************)
InitSignals ==
    /\ pc = "idle"
    /\ executed = <<>>
    /\ repo_root_url = "https://github.com/acme/shop"
    /\ local_path = "/tmp/shop"
    /\ snapshot_exists \in BOOLEAN
    /\ deployable = FALSE
    /\ deployable_signal_files = <<>>
    /\ repo_type = "none"
    /\ repo_type_evidence = <<>>
    /\ self_built_software = <<>>
    /\ discovery_context = "none"
    /\ enriched = {}
    /\ phase = "scanned"
    /\ scanned \in SeqsUpTo(ScannerSignals, MaxSignals)
    /\ signals = scanned
    /\ passes = 0
    /\ llm_responses = <<>>
    /\ attempted = <<>>
    /\ classifier_calls = <<>>
    /\ DiscoveryIdle
    /\ BatchIdle
    /\ RestIdle

\* one application of _classify_signal_strength_by_combination to the list
ClassifyPass ==
    /\ phase = "scanned"
    /\ passes < MaxPasses
    /\ signals' = _classify_signal_strength_by_combination(signals)
    /\ passes' = passes + 1
    /\ UNCHANGED <<phase, scanned, llm_responses, attempted, classifier_calls>>
    /\ UNCHANGED <<wfvars, discvars, batchvars, restvars>>

\* deployment_signals_detection_runnable on the scanned snapshot
RunSignalDetection ==
    /\ phase = "scanned"
    /\ passes = 0
    /\ \E outcome \in OutcomesFor(scanned) :
          LET r == deployment_signals_detection(
                       local_path, snapshot_exists, deployable,
                       deployable_signal_files, scanned, outcome)
          IN  /\ deployable' = r.deployable
              /\ deployable_signal_files' = r.files
              /\ signals' = r.signals
              /\ attempted' = r.attempted
              /\ classifier_calls' = r.calls
              /\ llm_responses' = outcome
              /\ phase' = IF r.raised THEN "raised" ELSE "done"
    /\ UNCHANGED <<scanned, passes>>
    /\ UNCHANGED <<pc, executed, repo_root_url, local_path, snapshot_exists,
                   repo_type, repo_type_evidence, self_built_software,
                   discovery_context, enriched>>
    /\ UNCHANGED <<discvars, batchvars, restvars>>

NextSignals == ClassifyPass \/ RunSignalDetection

SpecSignals == InitSignals /\ [][NextSignals]_vars

(***************************************************************************)
(* Repo-type score                                                         *)
(***************************************************************************)
\* the counters the walk can produce: every hit lies in one top-level
\* directory, so there are hits iff there is a directory with hits
HitCounts ==
    {<<m, d, k>> \in (0..MaxManifestHits) \X (0..MaxDockerHits)
                       \X (0..(MaxManifestHits + MaxDockerHits)) :
        IF m + d = 0 THEN k = 0 ELSE (k >= 1 /\ k <= m + d)}

\* mutant: two manifests score like three
repo_type_score_two_manifests(manifest_hits, docker_hits, dirs_with_hits) ==
    (IF manifest_hits >= 2 THEN 2 ELSE 0)
    + (IF docker_hits > 1 THEN 2 ELSE 0)
    + (IF dirs_with_hits >= 3 THEN 2
       ELSE IF dirs_with_hits = 2 THEN 1 ELSE 0)

repo_type_score(manifest_hits, docker_hits, dirs_with_hits) ==
    (IF manifest_hits >= 3 THEN 2
     ELSE IF manifest_hits = 2 /\ dirs_with_hits > 1 THEN 1 ELSE 0)
    + (IF docker_hits > 1 THEN 2 ELSE 0)
    + (IF dirs_with_hits >= 3 THEN 2
       ELSE IF dirs_with_hits = 2 THEN 1 ELSE 0)

classify_repo_type(manifest_hits, docker_hits, dirs_with_hits) ==
    IF repo_type_score(manifest_hits, docker_hits, dirs_with_hits) >= 3
    THEN "mono-repo"
    ELSE "single-purpose-repo"

(***************************************************************************)
(* Workflow graph                                                          *)
(***************************************************************************)
RepoUrls ==
    {"https://github.com/acme/shop", "https://github.com/acme/shop.git",
     "https://github.com/acme/shop/tree/main",
     "https://gitlab.com/acme/shop", "https://github.com/acme"}

\* parse_github_url_to_repo_full_name: the repo name, or "ValueError" when
\* the host is not github.com or the path has no /<owner>/<repo>
parse_github_url_to_repo_full_name(url) ==
    CASE url = "https://github.com/acme/shop" -> "shop"
      [] url = "https://github.com/acme/shop.git" -> "shop"
      [] url = "https://github.com/acme/shop/tree/main" -> "shop"
      [] url = "https://gitlab.com/acme/shop" -> "ValueError"
      [] url = "https://github.com/acme" -> "ValueError"

\* graph.add_edge(a, b)
edge ==
    [clone_repo_tool_runnable |-> "load_context_runnable",
     load_context_runnable |-> "deployment_signals_detection_runnable",
     sbs_name_discovery_runnable |-> "languages_service_agent",
     single_purpose_repo_inspector_runnable |-> "languages_service_agent",
     languages_service_agent |-> "extract_team_owners_agent",
     extract_team_owners_agent |-> "individual_contributors_service_agent",
     individual_contributors_service_agent |-> "detect_tech_stack_runnable",
     detect_tech_stack_runnable |-> "delete_repo_runnable",
     delete_repo_runnable |-> "END"]

\* mutant: the router does not look at the flag
route_on_deployable_always(is_deployable) == "classify_repo_type_runnable"

route_on_deployable(is_deployable) ==
    IF is_deployable
    THEN "classify_repo_type_runnable"
    ELSE "delete_repo_runnable"

\* mutant: the two targets are exchanged
route_on_repo_type_swapped(rt) ==
    IF rt = "mono-repo"
    THEN "single_purpose_repo_inspector_runnable"
    ELSE "sbs_name_discovery_runnable"

route_on_repo_type(rt) ==
    IF rt = "mono-repo"
    THEN "sbs_name_discovery_runnable"
    ELSE "single_purpose_repo_inspector_runnable"

\* what the mono-repo discovery can add to the component list
DiscoveredServices == {<<>>, <<"svc_a">>, <<"svc_a", "svc_b">>}

Init ==
    /\ pc = "clone_repo_tool_runnable"
    /\ executed = <<>>
    /\ repo_root_url \in RepoUrls
    /\ local_path = "none"
    /\ snapshot_exists = FALSE
    /\ deployable = FALSE
    /\ deployable_signal_files = <<>>
    /\ repo_type = "none"
    /\ repo_type_evidence = <<>>
    /\ self_built_software = <<>>
    /\ discovery_context = "none"
    /\ enriched = {}
    /\ phase = "idle"
    /\ scanned = <<>>
    /\ signals = <<>>
    /\ passes = 0
    /\ llm_responses = <<>>
    /\ attempted = <<>>
    /\ classifier_calls = <<>>
    /\ DiscoveryIdle
    /\ BatchIdle
    /\ RestIdle

\* a node starts: it is recorded as executed
Enter(node) ==
    /\ pc = node
    /\ executed' = Append(executed, node)

\* an exception leaves the node: LangGraph lets it propagate out of invoke
Raise == pc' = "RAISED"

\* git clone into a fresh temp directory; every failure is re-raised
clone_repo_tool_runnable ==
    /\ Enter("clone_repo_tool_runnable")
    /\ \E cloned \in BOOLEAN :
          IF cloned
          THEN /\ local_path' = "/tmp/shop"
               /\ snapshot_exists' = TRUE
               /\ pc' = edge.clone_repo_tool_runnable
          ELSE /\ Raise
               /\ UNCHANGED <<local_path, snapshot_exists>>
    /\ UNCHANGED <<repo_root_url, deployable, deployable_signal_files,
                   repo_type, repo_type_evidence, self_built_software,
                   discovery_context, enriched>>
    /\ UNCHANGED <<sigvars, discvars, batchvars, restvars>>

\* build_discovery_context: a missing file and an OSError give no context;
\* a file that is not valid UTF-8 raises UnicodeDecodeError, which is
\* neither PermissionError nor OSError
load_context_runnable ==
    /\ Enter("load_context_runnable")
    /\ \E context_file \in {"absent", "readable", "os_error", "undecodable"} :
          IF context_file = "undecodable"
          THEN Raise /\ UNCHANGED discovery_context
          ELSE /\ discovery_context' =
                     IF context_file = "readable" THEN "loaded" ELSE "empty"
               /\ pc' = edge.load_context_runnable
    /\ UNCHANGED <<repo_root_url, local_path, snapshot_exists, deployable,
                   deployable_signal_files, repo_type, repo_type_evidence,
                   self_built_software, enriched>>
    /\ UNCHANGED <<sigvars, discvars, batchvars, restvars>>

deployment_signals_detection_runnable ==
    /\ Enter("deployment_signals_detection_runnable")
    /\ \E scan \in SeqsUpTo(ScannerSignals, MaxSignals) :
       \E outcome \in OutcomesFor(scan) :
          LET r == deployment_signals_detection(
                       local_path, snapshot_exists, deployable,
                       deployable_signal_files, scan, outcome)
          IN  /\ deployable' = r.deployable
              /\ deployable_signal_files' = r.files
              /\ pc' = IF r.raised THEN "RAISED"
                       ELSE route_on_deployable(r.deployable)
    /\ UNCHANGED <<repo_root_url, local_path, snapshot_exists, repo_type,
                   repo_type_evidence, self_built_software,
                   discovery_context, enriched>>
    /\ UNCHANGED <<sigvars, discvars, batchvars, restvars>>

classify_repo_type_runnable ==
    /\ Enter("classify_repo_type_runnable")
    /\ IF local_path = "none" \/ ~snapshot_exists
       THEN Raise /\ UNCHANGED <<repo_type, repo_type_evidence>>
       ELSE \E hits \in HitCounts :
               /\ repo_type' = classify_repo_type(hits[1], hits[2], hits[3])
               /\ repo_type_evidence' = hits
               /\ pc' = route_on_repo_type(repo_type')
    /\ UNCHANGED <<repo_root_url, local_path, snapshot_exists, deployable,
                   deployable_signal_files, self_built_software,
                   discovery_context, enriched>>
    /\ UNCHANGED <<sigvars, discvars, batchvars, restvars>>

\* The LLM agent catches its own failures and answers []; an answer whose
\* items are not objects makes svc.get raise in the runnable.
sbs_name_discovery_runnable ==
    /\ Enter("sbs_name_discovery_runnable")
    /\ IF local_path = "none" \/ ~snapshot_exists
       THEN /\ pc' = edge.sbs_name_discovery_runnable
            /\ UNCHANGED self_built_software
       ELSE \E malformed \in BOOLEAN :
               IF malformed
               THEN Raise /\ UNCHANGED self_built_software
               ELSE \E discovered \in DiscoveredServices :
                       /\ self_built_software' =
                              self_built_software \o discovered
                       /\ pc' = edge.sbs_name_discovery_runnable
    /\ UNCHANGED <<repo_root_url, local_path, snapshot_exists, deployable,
                   deployable_signal_files, repo_type, repo_type_evidence,
                   discovery_context, enriched>>
    /\ UNCHANGED <<sigvars, discvars, batchvars, restvars>>

\* mutant: the first component is renamed and the others are kept
collapse_to_exactly_one_keep_rest(components, repo) ==
    IF components # <<>>
    THEN [components EXCEPT ![1] = repo]
    ELSE Append(components, repo)

\* a component is modelled by its name: the first component is renamed and
\* becomes the whole list, or a new component is appended to the empty list
collapse_to_exactly_one(components, repo) ==
    IF components # <<>>
    THEN LET c == repo IN <<c>>
    ELSE Append(components, repo)

\* a URL that does not parse is logged and the state is returned as it is
single_purpose_repo_inspector_runnable ==
    /\ Enter("single_purpose_repo_inspector_runnable")
    /\ LET repo == parse_github_url_to_repo_full_name(repo_root_url)
       IN  IF repo = "ValueError"
           THEN UNCHANGED <<self_built_software, repo_type>>
           ELSE /\ self_built_software' =
                      collapse_to_exactly_one(self_built_software, repo)
                /\ repo_type' = "single-purpose-repo"
    /\ pc' = edge.single_purpose_repo_inspector_runnable
    /\ UNCHANGED <<repo_root_url, local_path, snapshot_exists, deployable,
                   deployable_signal_files, repo_type_evidence,
                   discovery_context, enriched>>
    /\ UNCHANGED <<sigvars, discvars, batchvars, restvars>>

\* no try/except: init_llm_by_provider or reading a manifest may raise
languages_service_agent ==
    /\ Enter("languages_service_agent")
    /\ \E fails \in BOOLEAN :
          IF fails
          THEN Raise /\ UNCHANGED enriched
          ELSE /\ enriched' = IF self_built_software = <<>> THEN enriched
                              ELSE enriched \cup {"language"}
               /\ pc' = edge.languages_service_agent
    /\ UNCHANGED <<repo_root_url, local_path, snapshot_exists, deployable,
                   deployable_signal_files, repo_type, repo_type_evidence,
                   self_built_software, discovery_context>>
    /\ UNCHANGED <<sigvars, discvars, batchvars, restvars>>

\* the whole body is inside try/except Exception: return state
extract_team_owners_agent ==
    /\ Enter("extract_team_owners_agent")
    /\ \E fails \in BOOLEAN :
          enriched' = IF deployable /\ ~fails /\ self_built_software # <<>>
                      THEN enriched \cup {"owner_team"}
                      ELSE enriched
    /\ pc' = edge.extract_team_owners_agent
    /\ UNCHANGED <<repo_root_url, local_path, snapshot_exists, deployable,
                   deployable_signal_files, repo_type, repo_type_evidence,
                   self_built_software, discovery_context>>
    /\ UNCHANGED <<sigvars, discvars, batchvars, restvars>>

\* no try/except: init_llm_by_provider, git shortlog or the chain may raise
individual_contributors_service_agent ==
    /\ Enter("individual_contributors_service_agent")
    /\ \E fails \in BOOLEAN :
          IF fails
          THEN Raise /\ UNCHANGED enriched
          ELSE /\ enriched' = IF self_built_software = <<>> THEN enriched
                              ELSE enriched \cup {"individuals"}
               /\ pc' = edge.individual_contributors_service_agent
    /\ UNCHANGED <<repo_root_url, local_path, snapshot_exists, deployable,
                   deployable_signal_files, repo_type, repo_type_evidence,
                   self_built_software, discovery_context>>
    /\ UNCHANGED <<sigvars, discvars, batchvars, restvars>>

\* failures are caught per manifest file; the component then gets the
\* stacks collected so far
detect_tech_stack_runnable ==
    /\ Enter("detect_tech_stack_runnable")
    /\ \E fails \in BOOLEAN :
          enriched' = IF local_path # "none" /\ ~fails
                         /\ self_built_software # <<>>
                      THEN enriched \cup {"tech_stacks"}
                      ELSE enriched
    /\ pc' = edge.detect_tech_stack_runnable
    /\ UNCHANGED <<repo_root_url, local_path, snapshot_exists, deployable,
                   deployable_signal_files, repo_type, repo_type_evidence,
                   self_built_software, discovery_context>>
    /\ UNCHANGED <<sigvars, discvars, batchvars, restvars>>

\* shutil.rmtree(state.local_path); a failure is logged and re-raised
delete_repo_runnable ==
    /\ Enter("delete_repo_runnable")
    /\ IF local_path = "none"
       THEN Raise /\ UNCHANGED snapshot_exists
       ELSE \E removed \in BOOLEAN :
               IF removed
               THEN /\ snapshot_exists' = FALSE
                    /\ pc' = edge.delete_repo_runnable
               ELSE Raise /\ UNCHANGED snapshot_exists
    /\ UNCHANGED <<repo_root_url, local_path, deployable,
                   deployable_signal_files, repo_type, repo_type_evidence,
                   self_built_software, discovery_context, enriched>>
    /\ UNCHANGED <<sigvars, discvars, batchvars, restvars>>

Next ==
    \/ clone_repo_tool_runnable
    \/ load_context_runnable
    \/ deployment_signals_detection_runnable
    \/ classify_repo_type_runnable
    \/ sbs_name_discovery_runnable
    \/ single_purpose_repo_inspector_runnable
    \/ languages_service_agent
    \/ extract_team_owners_agent
    \/ individual_contributors_service_agent
    \/ detect_tech_stack_runnable
    \/ delete_repo_runnable

Spec == Init /\ [][Next]_vars

(***************************************************************************)
(* SpecCollapse: the single-purpose collapse applied to every bounded      *)
(* component list and every repository URL                                 *)
(***************************************************************************)
MaxComponents == 3

ComponentNames == {"svc_a", "svc_b", "shop"}

InitCollapse ==
    /\ pc = "single_purpose_repo_inspector_runnable"
    /\ executed = <<>>
    /\ repo_root_url \in RepoUrls
    /\ local_path = "/tmp/shop"
    /\ snapshot_exists = TRUE
    /\ deployable = TRUE
    /\ deployable_signal_files = <<>>
    /\ repo_type = "single-purpose-repo"
    /\ repo_type_evidence = <<1, 1, 1>>
    /\ self_built_software \in SeqsUpTo(ComponentNames, MaxComponents)
    /\ discovery_context = "empty"
    /\ enriched = {}
    /\ phase = "idle"
    /\ scanned = <<>>
    /\ signals = <<>>
    /\ passes = 0
    /\ llm_responses = <<>>
    /\ attempted = <<>>
    /\ classifier_calls = <<>>
    /\ DiscoveryIdle
    /\ BatchIdle
    /\ RestIdle

NextCollapse == single_purpose_repo_inspector_runnable

SpecCollapse == InitCollapse /\ [][NextCollapse]_vars

(***************************************************************************)
(* Package-manager directory finder                                        *)
(***************************************************************************)
MaxWalkDirs == 3

\* directory names a listing can hold, and the order a listing gives them
DirNames == {"api", "web", "node_modules", "Generated"}

DirOrder == <<"Generated", "api", "node_modules", "web">>

\* a hidden name, or a name of the build/dependency/test/... sets
\* (case-sensitive)
_should_skip_directory(dir_name) == dir_name \in {"node_modules"}

\* the lower-cased name holds "generated", "gen", ..., or starts with
\* "@" or "_", or looks like a hash or a date
_is_generated_or_derived_directory(dir_name) == dir_name \in {"Generated"}

\* the extension is one of the binary extensions
_is_binary_file(filename) == filename \in {"logo.png"}

PACKAGE_MANAGER_FILES ==
    {"package.json", "project.json", "pom.xml", "build.gradle",
     "build.gradle.kts", "go.mod", "Cargo.toml", "pyproject.toml",
     "requirements.txt", "setup.py", "composer.json", "Gemfile"}

_is_package_manager_file(filename) == filename \in PACKAGE_MANAGER_FILES

priority_order ==
    <<"package.json", "project.json", "pom.xml", "build.gradle", "go.mod",
      "Cargo.toml">>

\* the files a directory listing can hold, in listing order
Listings ==
    {<<>>, <<"README.md">>, <<"package.json">>,
     <<"go.mod", "package.json">>, <<"logo.png", "go.mod">>,
     <<"setup.py", "requirements.txt">>, <<"requirements.txt", "setup.py">>,
     <<"requirements.txt", "Cargo.toml", "pom.xml">>}

\* mutant: generated/derived directories stay in dirs[:]
walk_dirs_filter_skip_only(dirs) ==
    {d \in dirs : ~_should_skip_directory(d)}

\* dirs[:] = [d for d in dirs if not ... and not ...]
walk_dirs_filter(dirs) ==
    {d \in dirs : /\ ~_should_skip_directory(d)
                  /\ ~_is_generated_or_derived_directory(d)}

\* filtered_files, then package_files_found
package_files_found(files) ==
    LET not_binary(f) == ~_is_binary_file(f)
        filtered_files == SelectSeq(files, not_binary)
    IN  SelectSeq(filtered_files, _is_package_manager_file)

\* mutant: the priority order is not consulted
selected_file_first_found(found) == found[1]

\* default to the first found, then the first priority file present wins
selected_file(found) ==
    LET present == {i \in DOMAIN priority_order :
                       priority_order[i] \in Range(found)}
    IN  IF present = {}
        THEN found[1]
        ELSE priority_order[CHOOSE i \in present :
                               \A j \in present : i <= j]

InitFinder ==
    /\ pc = "sbs_name_discovery_runnable"
    /\ executed = <<>>
    /\ repo_root_url = "https://github.com/acme/shop"
    /\ local_path = "/tmp/shop"
    /\ snapshot_exists = TRUE
    /\ deployable = TRUE
    /\ deployable_signal_files = <<>>
    /\ repo_type = "mono-repo"
    /\ repo_type_evidence = <<3, 0, 3>>
    /\ self_built_software = <<>>
    /\ discovery_context = "empty"
    /\ enriched = {}
    /\ phase = "idle"
    /\ scanned = <<>>
    /\ signals = <<>>
    /\ passes = 0
    /\ llm_responses = <<>>
    /\ attempted = <<>>
    /\ classifier_calls = <<>>
    /\ dphase = "walking"
    /\ walk_stack = << <<>> >>
    /\ walk_visited = 0
    /\ package_dirs = <<>>
    /\ processed_dirs = {}
    /\ walk_files = <<>>
    /\ walk_pruned = {}
    /\ file_content = <<>>
    /\ referenced_dirs = {}
    /\ services = <<>>
    /\ discovery_agent_calls = 0
    /\ llm_discovered = <<>>
    /\ BatchIdle
    /\ RestIdle

\* one iteration of "for root, dirs, files in os.walk(repo_path)": the
\* listing of root is read, dirs is pruned in place (os.walk descends only
\* into what is left), and root is recorded when it holds a manifest
find_package_manager_directories_step ==
    /\ dphase = "walking"
    /\ walk_stack # <<>>
    /\ \E dirs \in SUBSET DirNames, files \in Listings :
       \E with_manifest \in SUBSET (dirs \ walk_dirs_filter(dirs)) :
          LET relative_path == Head(walk_stack)
              kept == walk_dirs_filter(dirs)
              is_kept(d) == d \in kept
              children == SelectSeq(DirOrder, is_kept)
              found == package_files_found(files)
          IN  /\ walk_visited + Len(walk_stack) + Cardinality(kept)
                    <= MaxWalkDirs
              /\ walk_stack' =
                     [i \in DOMAIN children |->
                         Append(relative_path, children[i])]
                     \o Tail(walk_stack)
              /\ walk_visited' = walk_visited + 1
              /\ walk_files' = files
              /\ walk_pruned' =
                     {[path |-> Append(relative_path, d),
                       holds_manifest |-> d \in with_manifest] :
                          d \in dirs \ kept}
              /\ IF found # <<>> /\ relative_path \notin processed_dirs
                 THEN /\ package_dirs' =
                            Append(package_dirs,
                                   [path |-> relative_path,
                                    package_file |-> selected_file(found)])
                      /\ processed_dirs' =
                            processed_dirs \cup {relative_path}
                 ELSE UNCHANGED <<package_dirs, processed_dirs>>
    /\ UNCHANGED <<dphase, file_content, referenced_dirs, services,
                   discovery_agent_calls, llm_discovered>>
    /\ UNCHANGED <<wfvars, sigvars, batchvars, restvars>>

\* os.walk is exhausted: return package_dirs
find_package_manager_directories_return ==
    /\ dphase = "walking"
    /\ walk_stack = <<>>
    /\ dphase' = "found"
    /\ UNCHANGED <<walk_stack, walk_visited, package_dirs, processed_dirs,
                   walk_files, walk_pruned, file_content, referenced_dirs,
                   services, discovery_agent_calls, llm_discovered>>
    /\ UNCHANGED <<wfvars, sigvars, batchvars, restvars>>

NextFinder ==
    \/ find_package_manager_directories_step
    \/ find_package_manager_directories_return

SpecFinder == InitFinder /\ [][NextFinder]_vars

(***************************************************************************)
(* Mono-repo service discovery: CI/CD reference matcher and the branch     *)
(***************************************************************************)
MaxLines == 2

MaxSignalFiles == 2

\* paths that deployment_signal_files can name
SignalPaths == {".github/workflows/ci.yml", ".gitlab-ci.yml", "Dockerfile"}

\* the path holds one of the CI/CD path patterns
_is_cicd_file(file_path) ==
    file_path \in {".github/workflows/ci.yml", ".gitlab-ci.yml"}

\* lines a CI/CD file can hold
CiLines ==
    {"working-directory: api", "cd WEB", "nx build cart",
     "path: services/pay", "context: libs/ui", "kubectl apply -f deploy",
     "services:"}

\* what is on disk at a path: a missing file, a file that cannot be read,
\* or a file with its lines
FileStates ==
    {[status |-> "missing", lines |-> {}],
     [status |-> "unreadable", lines |-> {}]}
    \cup {[status |-> "ok", lines |-> ls] :
             ls \in {x \in SUBSET CiLines : Cardinality(x) <= MaxLines}}

\* str.lower()
lower(line) == IF line = "cd WEB" THEN "cd web" ELSE line

\* the results of the finder that discovery is run on
PackageDirLists ==
    {<<[path |-> <<>>, package_file |-> "package.json"],
       [path |-> <<"api">>, package_file |-> "go.mod"],
       [path |-> <<"deploy">>, package_file |-> "requirements.txt"],
       [path |-> <<"libs", "ui">>, package_file |-> "package.json"],
       [path |-> <<"services", "cart">>, package_file |-> "pom.xml"],
       [path |-> <<"services", "pay">>, package_file |-> "pom.xml"],
       [path |-> <<"web">>, package_file |-> "package.json"]>>,
     <<[path |-> <<"api">>, package_file |-> "go.mod"],
       [path |-> <<"libs", "ui">>, package_file |-> "package.json"],
       [path |-> <<"services", "cart">>, package_file |-> "pom.xml"],
       [path |-> <<"services", "pay">>, package_file |-> "pom.xml"],
       [path |-> <<"web">>, package_file |-> "package.json"]>>,
     <<[path |-> <<"api">>, package_file |-> "go.mod"],
       [path |-> <<"deploy">>, package_file |-> "requirements.txt"],
       [path |-> <<"services", "cart">>, package_file |-> "pom.xml"],
       [path |-> <<"web">>, package_file |-> "package.json"]>>}

\* the name is one of the infrastructure names, or the path starts with
\* libs/, scripts/, tools/ or utilities/, or the name holds a config pattern
_is_infrastructure_directory(dir_path) ==
    dir_path \in {<<"libs", "ui">>, <<"deploy">>}

\* one of the direct, service-name, build or tool patterns generated for
\* the directory, lower-cased, is a substring of the line
pattern_in_line(dir_path, line) ==
    CASE line = "working-directory: api" -> dir_path = <<"api">>
      [] line = "cd web" -> dir_path = <<"web">>
      [] line = "nx build cart" -> dir_path = <<"services", "cart">>
      [] line = "path: services/pay" -> dir_path = <<"services", "pay">>
      [] line = "context: libs/ui" -> dir_path = <<"libs", "ui">>
      [] line = "kubectl apply -f deploy" -> dir_path = <<"deploy">>
      [] line = "services:" -> TRUE
      [] OTHER -> FALSE

\* mutant: the infrastructure check is missing
_is_directory_referenced_in_cicd_no_check(content, dir_path) ==
    \E line \in content : pattern_in_line(dir_path, line)

_is_directory_referenced_in_cicd(content, dir_path) ==
    IF _is_infrastructure_directory(dir_path)
    THEN FALSE
    ELSE \E line \in content : pattern_in_line(dir_path, line)

\* mutant: a CI/CD file that cannot be analysed ends the loop
RECURSIVE cicd_loop_break(_, _, _, _, _)
cicd_loop_break(disk, cicd_files, dirs, k, referenced) ==
    IF k > Len(cicd_files)
    THEN referenced
    ELSE IF disk[cicd_files[k]].status # "ok"
         THEN referenced
         ELSE LET content == {lower(l) : l \in disk[cicd_files[k]].lines}
              IN  cicd_loop_break(disk, cicd_files, dirs, k + 1,
                      referenced \cup
                      {dirs[i].path : i \in
                          {j \in DOMAIN dirs :
                              _is_directory_referenced_in_cicd(
                                  content, dirs[j].path)}})

\* for cicd_file in cicd_files: a missing file is skipped by continue, a
\* read error is caught inside the loop body
RECURSIVE cicd_loop(_, _, _, _, _)
cicd_loop(disk, cicd_files, dirs, k, referenced) ==
    IF k > Len(cicd_files)
    THEN referenced
    ELSE IF disk[cicd_files[k]].status # "ok"
         THEN cicd_loop(disk, cicd_files, dirs, k + 1, referenced)
         ELSE LET content == {lower(l) : l \in disk[cicd_files[k]].lines}
              IN  cicd_loop(disk, cicd_files, dirs, k + 1,
                      referenced \cup
                      {dirs[i].path : i \in
                          {j \in DOMAIN dirs :
                              _is_directory_referenced_in_cicd(
                                  content, dirs[j].path)}})

_analyze_cicd_references(disk, deployment_signal_files, package_manager_dirs) ==
    LET cicd_files == SelectSeq(deployment_signal_files, _is_cicd_file)
    IN  cicd_loop(disk, cicd_files, package_manager_dirs, 1, {})

\* _extract_service_name: the directory name; for the repository root
\* the name of the clone directory
_extract_service_name(relative_path) ==
    IF relative_path = <<>> THEN "shop" ELSE Last(relative_path)

\* mutant: the authoritative branch needs more than four directories
authoritative_branch_above_four(referenced) == Cardinality(referenced) > 4

\* if len(referenced_dirs)>=4
authoritative_branch(referenced) == Cardinality(referenced) >= 4

\* the components built from package_manager_dirs in list order
RECURSIVE referenced_components(_, _, _)
referenced_components(dirs, referenced, k) ==
    IF k > Len(dirs)
    THEN <<>>
    ELSE IF dirs[k].path \in referenced
         THEN <<[name |-> _extract_service_name(dirs[k].path),
                 path |-> dirs[k].path,
                 confidence |-> "high"]>>
              \o referenced_components(dirs, referenced, k + 1)
         ELSE referenced_components(dirs, referenced, k + 1)

\* what ai_service_discovery_agent can answer; it catches its own failures
\* and then answers []
AgentAnswers ==
    {<<>>,
     <<[name |-> "api", path |-> <<"api">>, confidence |-> "medium"]>>,
     <<[name |-> "web", path |-> <<"web">>, confidence |-> "high"],
       [name |-> "billing", path |-> <<"billing">>, confidence |-> "low"]>>}

\* the components built from the agent's answer, item by item
llm_components(answer) ==
    [i \in DOMAIN answer |->
        [name |-> answer[i].name,
         path |-> answer[i].path,
         confidence |-> answer[i].confidence]]

InitDiscovery ==
    /\ pc = "sbs_name_discovery_runnable"
    /\ executed = <<>>
    /\ repo_root_url = "https://github.com/acme/shop"
    /\ local_path = "/tmp/shop"
    /\ snapshot_exists = TRUE
    /\ deployable = TRUE
    /\ deployable_signal_files \in SeqsUpTo(SignalPaths, MaxSignalFiles)
    /\ repo_type = "mono-repo"
    /\ repo_type_evidence = <<3, 0, 3>>
    /\ self_built_software = <<>>
    /\ discovery_context = "empty"
    /\ enriched = {}
    /\ phase = "idle"
    /\ scanned = <<>>
    /\ signals = <<>>
    /\ passes = 0
    /\ llm_responses = <<>>
    /\ attempted = <<>>
    /\ classifier_calls = <<>>
    /\ dphase = "found"
    /\ walk_stack = <<>>
    /\ walk_visited = 0
    /\ package_dirs \in PackageDirLists
    /\ processed_dirs = {package_dirs[i].path : i \in DOMAIN package_dirs}
    /\ walk_files = <<>>
    /\ walk_pruned = {}
    /\ file_content \in
           {f \in [SignalPaths -> FileStates] :
               f["Dockerfile"] = [status |-> "ok", lines |-> {"services:"}]}
    /\ referenced_dirs = {}
    /\ services = <<>>
    /\ discovery_agent_calls = 0
    /\ llm_discovered = <<>>
    /\ BatchIdle
    /\ RestIdle

\* Step 2 of discover_services_by_deployment_signals
analyze_cicd_references_step ==
    /\ dphase = "found"
    /\ referenced_dirs' =
           _analyze_cicd_references(file_content, deployable_signal_files,
                                    package_dirs)
    /\ dphase' = "analyzed"
    /\ UNCHANGED <<walk_stack, walk_visited, package_dirs, processed_dirs,
                   walk_files, walk_pruned, file_content, services,
                   discovery_agent_calls, llm_discovered>>
    /\ UNCHANGED <<wfvars, sigvars, batchvars, restvars>>

\* Step 3 of discover_services_by_deployment_signals: components of the
\* referenced directories, or of the agent's answer; an item of the answer
\* that is not an object makes svc.get raise
create_services_step ==
    /\ dphase = "analyzed"
    /\ IF authoritative_branch(referenced_dirs)
       THEN /\ services' =
                  referenced_components(package_dirs, referenced_dirs, 1)
            /\ dphase' = "done"
            /\ UNCHANGED <<discovery_agent_calls, llm_discovered>>
       ELSE /\ discovery_agent_calls' = discovery_agent_calls + 1
            /\ \E malformed \in BOOLEAN :
                  IF malformed
                  THEN /\ dphase' = "raised"
                       /\ UNCHANGED <<services, llm_discovered>>
                  ELSE \E answer \in AgentAnswers :
                          /\ llm_discovered' = answer
                          /\ services' = llm_components(answer)
                          /\ dphase' = "done"
    /\ UNCHANGED <<walk_stack, walk_visited, package_dirs, processed_dirs,
                   walk_files, walk_pruned, file_content, referenced_dirs>>
    /\ UNCHANGED <<wfvars, sigvars, batchvars, restvars>>

NextDiscovery == analyze_cicd_references_step \/ create_services_step

SpecDiscovery == InitDiscovery /\ [][NextDiscovery]_vars

(***************************************************************************)
(* The discover command and its batch loop                                 *)
(***************************************************************************)
MaxRepos == 3

\* how workflow.invoke ends for a repository: an exception leaves it
\* ("cleanup_raised" is the exception delete_repo_runnable re-raises when
\* shutil.rmtree fails, after every other stage has run), or it returns a
\* state that is deployable or not
WorkflowOutcomes == {"raised", "cleanup_raised", "non_deployable", "deployable"}

\* component.owner.team of a deployable repository, as the JSON answer of
\* the CODEOWNERS agent gives it: null, a string, a list of strings, or an
\* object (the value is assigned to owner.team as it is)
TeamValues == {"none", "string", "list", "object"}

\* mutant: the persistence calls are not guarded
persistence_enabled_always(flag) == TRUE

\* if not dry_run:
persistence_enabled(flag) == ~flag

\* mutant: the loop does not look at the flag
interrupt_observed_never(flag) == FALSE

\* if interrupted: ... break
interrupt_observed(flag) == flag

\* stats['failed'] += 1; stats['errors'].append((repo_url, str(e)))
record_failure(st) == [st EXCEPT !.failed = @ + 1]

InitBatch ==
    /\ pc = "idle"
    /\ executed = <<>>
    /\ repo_root_url = "https://github.com/acme/shop"
    /\ local_path = "none"
    /\ snapshot_exists = FALSE
    /\ deployable = FALSE
    /\ deployable_signal_files = <<>>
    /\ repo_type = "none"
    /\ repo_type_evidence = <<>>
    /\ self_built_software = <<>>
    /\ discovery_context = "none"
    /\ enriched = {}
    /\ phase = "idle"
    /\ scanned = <<>>
    /\ signals = <<>>
    /\ passes = 0
    /\ llm_responses = <<>>
    /\ attempted = <<>>
    /\ classifier_calls = <<>>
    /\ DiscoveryIdle
    /\ RestIdle
    /\ bpc = "setup"
    /\ dry_run \in BOOLEAN
    /\ output \in BOOLEAN
    /\ repos \in {[i \in 1..n |-> i] : n \in 1..MaxRepos}
    /\ idx = 0
    /\ interrupted = FALSE
    /\ invoked = 0
    /\ signal_at = [bpc |-> "none", invoked |-> 0]
    /\ stats = [total_repositories |-> 0, deployable |-> 0,
                non_deployable |-> 0, failed |-> 0]
    /\ errors = <<>>
    /\ db_ops = {}
    /\ exported = "none"
    /\ exit_code = -1

\* signal_handler: the flag is set and nothing else changes
signal_handler ==
    /\ bpc \in {"setup", "loop_top", "try", "running", "summary"}
    /\ ~interrupted
    /\ interrupted' = TRUE
    /\ signal_at' = [bpc |-> bpc, invoked |-> invoked]
    /\ UNCHANGED <<bpc, dry_run, output, repos, idx, invoked, stats, errors,
                   db_ops, exported, exit_code>>
    /\ UNCHANGED <<wfvars, sigvars, discvars, restvars>>

\* validation, init_db, create_org_if_not_exists and the fetch of the
\* repository list; a fetch error exits with 3
discover_setup ==
    /\ bpc = "setup"
    /\ db_ops' = IF persistence_enabled(dry_run)
                 THEN db_ops \cup {"init_db", "create_org_if_not_exists"}
                 ELSE db_ops
    /\ \E fetched \in BOOLEAN :
          IF fetched
          THEN bpc' = "loop_top" /\ UNCHANGED exit_code
          ELSE bpc' = "exited" /\ exit_code' = 3
    /\ UNCHANGED <<dry_run, output, repos, idx, interrupted, invoked,
                   signal_at, stats, errors, exported>>
    /\ UNCHANGED <<wfvars, sigvars, discvars, restvars>>

\* the head of "for idx, repo_data in enumerate(repos, 1)" and the check
\* of the flag
loop_check ==
    /\ bpc = "loop_top"
    /\ IF idx = Len(repos) \/ interrupt_observed(interrupted)
       THEN bpc' = "summary" /\ UNCHANGED idx
       ELSE bpc' = "try" /\ idx' = idx + 1
    /\ UNCHANGED <<dry_run, output, repos, interrupted, invoked, signal_at,
                   stats, errors, db_ops, exported, exit_code>>
    /\ UNCHANGED <<wfvars, sigvars, discvars, restvars>>

\* progress.update, the initial state, and the call of workflow.invoke
invoke_workflow ==
    /\ bpc = "try"
    /\ invoked' = invoked + 1
    /\ bpc' = "running"
    /\ UNCHANGED <<dry_run, output, repos, idx, interrupted, signal_at,
                   stats, errors, db_ops, exported, exit_code>>
    /\ UNCHANGED <<wfvars, sigvars, discvars, restvars>>

\* the rest of the try block with its except and finally: the workflow
\* ends, the state is saved unless dry_run, the counters are updated and
\* the teams collected; unique_teams.add / update raises TypeError for a
\* team value that is not hashable
process_repository ==
    /\ bpc = "running"
    /\ \E outcome \in WorkflowOutcomes, saved \in BOOLEAN,
          team \in TeamValues :
          LET repo_url == repos[idx]
              counted == [stats EXCEPT
                            !.total_repositories = @ + 1,
                            !.deployable =
                                IF outcome = "deployable" THEN @ + 1 ELSE @,
                            !.non_deployable =
                                IF outcome = "deployable" THEN @ ELSE @ + 1]
          IN  IF outcome \in {"raised", "cleanup_raised"}
              THEN /\ stats' = record_failure(stats)
                   /\ errors' =
                          Append(errors,
                                 <<repo_url, IF outcome = "cleanup_raised"
                                             THEN "rmtree" ELSE "workflow">>)
                   /\ UNCHANGED db_ops
              ELSE IF persistence_enabled(dry_run) /\ ~saved
              THEN /\ stats' = record_failure(stats)
                   /\ errors' =
                          Append(errors, <<repo_url, "create_repository">>)
                   /\ db_ops' = db_ops \cup {"create_repository"}
              ELSE /\ db_ops' = IF persistence_enabled(dry_run)
                                THEN db_ops \cup {"create_repository"}
                                ELSE db_ops
                   /\ IF outcome = "deployable" /\ team = "object"
                      THEN /\ stats' = record_failure(counted)
                           /\ errors' =
                                  Append(errors, <<repo_url, "unhashable">>)
                      ELSE /\ stats' = counted
                           /\ UNCHANGED errors
    /\ bpc' = "loop_top"
    /\ UNCHANGED <<dry_run, output, repos, idx, interrupted, invoked,
                   signal_at, exported, exit_code>>
    /\ UNCHANGED <<wfvars, sigvars, discvars, restvars>>

\* the summary, the export and sys.exit: a failed export exits with 1
\* before the flag is looked at
discover_exit ==
    /\ bpc = "summary"
    /\ \E written \in BOOLEAN :
          LET code == IF interrupted THEN 130
                      ELSE IF stats.failed > 0 THEN 1 ELSE 0
          IN  IF output
              THEN IF written
                   THEN exported' = "written" /\ exit_code' = code
                   ELSE exported' = "failed" /\ exit_code' = 1
              ELSE UNCHANGED exported /\ exit_code' = code
    /\ bpc' = "exited"
    /\ UNCHANGED <<dry_run, output, repos, idx, interrupted, invoked,
                   signal_at, stats, errors, db_ops>>
    /\ UNCHANGED <<wfvars, sigvars, discvars, restvars>>

NextBatch ==
    \/ signal_handler
    \/ discover_setup
    \/ loop_check
    \/ invoke_workflow
    \/ process_repository
    \/ discover_exit

SpecBatch == InitBatch /\ [][NextBatch]_vars

(***************************************************************************)
(* fetch_github_repos: the paginated fetch of an organization's            *)
(* repositories                                                            *)
(***************************************************************************)
MaxRequests == 9

\* what one requests.get can give: a 403 whose text mentions the rate
\* limit, a ConnectionError, a page with repositories, an empty page, a
\* status raise_for_status raises for, or any other exception (a read
\* timeout, a body that is not JSON)
ResponseKinds ==
    {"rate_limited", "connection_error", "page", "empty", "http_error",
     "other"}

Min(a, b) == IF a < b THEN a ELSE b

\* mutant: the wait is doubled without a ceiling
next_backoff_uncapped(b) == b * 2

\* backoff = min(backoff * 2, 60)
next_backoff(b) == Min(b * 2, 60)

InitFetch ==
    /\ pc = "idle"
    /\ executed = <<>>
    /\ repo_root_url = "https://github.com/acme/shop"
    /\ local_path = "none"
    /\ snapshot_exists = FALSE
    /\ deployable = FALSE
    /\ deployable_signal_files = <<>>
    /\ repo_type = "none"
    /\ repo_type_evidence = <<>>
    /\ self_built_software = <<>>
    /\ discovery_context = "none"
    /\ enriched = {}
    /\ phase = "idle"
    /\ scanned = <<>>
    /\ signals = <<>>
    /\ passes = 0
    /\ llm_responses = <<>>
    /\ attempted = <<>>
    /\ classifier_calls = <<>>
    /\ DiscoveryIdle
    /\ BatchIdle
    /\ fpc = "start"
    /\ entry \in {"cli", "main"}
    /\ page = 1
    /\ backoff = 1
    /\ fetched_pages = <<>>
    /\ requested = <<>>
    /\ responses = <<>>
    /\ waits = <<>>
    /\ DbIdle
    /\ ContextIdle
    /\ DepthIdle
    /\ RescanIdle

\* the checks of the token and the organization name
fetch_github_repos_start ==
    /\ fpc = "start"
    /\ \E configured \in BOOLEAN :
          fpc' = IF configured THEN "request" ELSE "raised"
    /\ UNCHANGED <<entry, page, backoff, fetched_pages, requested,
                   responses, waits>>
    /\ UNCHANGED <<wfvars, sigvars, discvars, batchvars, dbvars, ctxvars,
                   depthvars, rescvars>>

\* one iteration of "while True": the request of the current page and
\* what is done with the response
fetch_github_repos_iteration ==
    /\ fpc = "request"
    /\ Len(requested) < MaxRequests
    /\ requested' = Append(requested, page)
    /\ \E response \in ResponseKinds :
          /\ responses' = Append(responses, response)
          /\ CASE response \in {"rate_limited", "connection_error"} ->
                    /\ waits' = Append(waits, backoff)
                    /\ backoff' = next_backoff(backoff)
                    /\ fpc' = "request"
                    /\ UNCHANGED <<page, fetched_pages>>
               [] response = "page" ->
                    /\ fetched_pages' = Append(fetched_pages, page)
                    /\ page' = page + 1
                    /\ backoff' = 1
                    /\ waits' = Append(waits, 0)
                    /\ fpc' = "request"
               [] response = "empty" ->
                    /\ fpc' = "returned"
                    /\ waits' = Append(waits, 0)
                    /\ UNCHANGED <<page, backoff, fetched_pages>>
               [] OTHER ->
                    /\ fpc' = IF entry = "cli" THEN "raised" ELSE "returned"
                    /\ waits' = Append(waits, 0)
                    /\ UNCHANGED <<page, backoff, fetched_pages>>
    /\ UNCHANGED entry
    /\ UNCHANGED <<wfvars, sigvars, discvars, batchvars, dbvars, ctxvars,
                   depthvars, rescvars>>

NextFetch ==
    \/ fetch_github_repos_start
    \/ fetch_github_repos_iteration

SpecFetch == InitFetch /\ [][NextFetch]_vars

(***************************************************************************)
(* create_repository: the persistence of a repository's components         *)
(***************************************************************************)
MaxCalls == 3

\* f"{owner}/{repo}" of the repositories that are saved
FullNames == {"acme/shop", "acme/billing"}

\* self_built_software of the saved state, as the names of its components
StoredComponents == SeqsUpTo(ComponentNames, 2)

\* get_repository: the id of the first row with the full name, 0 for None
get_repository(rows, full_name) ==
    IF \E i \in DOMAIN rows : rows[i] = full_name
    THEN CHOOSE i \in DOMAIN rows :
            /\ rows[i] = full_name
            /\ \A j \in DOMAIN rows : rows[j] = full_name => i <= j
    ELSE 0

\* get_fact_sheet: the rows with the name, whatever their repository
get_fact_sheet(rows, fact_sheet_name) ==
    {f \in rows : f.fact_sheet_name = fact_sheet_name}

\* delete_fact_sheet_by_repository
delete_fact_sheet_by_repository(rows, repository_id) ==
    {f \in rows : f.repository_id # repository_id}

\* create_fact_sheet_from_sbs on the tables db: a fact sheet is added when
\* none has the component's name; the AI discovery data of the fact sheet
\* found or added is deleted and written again from the component
create_fact_sheet_from_sbs(db, name, repository_id, full_name) ==
    LET found == get_fact_sheet(db.fact_sheets, name)
        fact_sheet == IF found = {}
                      THEN [fact_sheet_id |-> db.next_uuid,
                            repository_id |-> repository_id,
                            fact_sheet_name |-> name]
                      ELSE CHOOSE f \in found : TRUE
        data == [fact_sheet_id |-> fact_sheet.fact_sheet_id,
                 component |-> <<full_name, name>>]
    IN  [fact_sheets |-> db.fact_sheets \cup {fact_sheet},
         ai_discovery_data |->
             {a \in db.ai_discovery_data :
                 a.fact_sheet_id # fact_sheet.fact_sheet_id} \cup {data},
         next_uuid |-> IF found = {} THEN db.next_uuid + 1
                       ELSE db.next_uuid]

\* for sbs_component in repos_state.self_built_software: ...
RECURSIVE create_fact_sheets(_, _, _, _, _)
create_fact_sheets(db, components, k, repository_id, full_name) ==
    IF k > Len(components) THEN db
    ELSE create_fact_sheets(
             create_fact_sheet_from_sbs(db, components[k], repository_id,
                                        full_name),
             components, k + 1, repository_id, full_name)

InitPersist ==
    /\ pc = "idle"
    /\ executed = <<>>
    /\ repo_root_url = "https://github.com/acme/shop"
    /\ local_path = "none"
    /\ snapshot_exists = FALSE
    /\ deployable = FALSE
    /\ deployable_signal_files = <<>>
    /\ repo_type = "none"
    /\ repo_type_evidence = <<>>
    /\ self_built_software = <<>>
    /\ discovery_context = "none"
    /\ enriched = {}
    /\ phase = "idle"
    /\ scanned = <<>>
    /\ signals = <<>>
    /\ passes = 0
    /\ llm_responses = <<>>
    /\ attempted = <<>>
    /\ classifier_calls = <<>>
    /\ DiscoveryIdle
    /\ BatchIdle
    /\ FetchIdle
    /\ ContextIdle
    /\ DepthIdle
    /\ RescanIdle
    /\ dbpc = "open"
    /\ repositories = <<>>
    /\ fact_sheets = {}
    /\ ai_discovery_data = {}
    /\ next_uuid = 1
    /\ last_call = [n \in FullNames |-> [called |-> FALSE, names |-> {}]]
    /\ persist_calls = 0

\* create_repository(repos_state): the row of the repository is added when
\* none has the full name, the fact sheets of the repository are deleted
\* and one is created from each component
create_repository ==
    /\ dbpc = "open"
    /\ persist_calls < MaxCalls
    /\ \E full_name \in FullNames, components \in StoredComponents :
          LET found == get_repository(repositories, full_name)
              rows == IF found = 0 THEN Append(repositories, full_name)
                      ELSE repositories
              repository_id == IF found = 0 THEN Len(rows) ELSE found
              cleared ==
                  [fact_sheets |->
                       delete_fact_sheet_by_repository(fact_sheets,
                                                       repository_id),
                   ai_discovery_data |-> ai_discovery_data,
                   next_uuid |-> next_uuid]
              db == create_fact_sheets(cleared, components, 1, repository_id,
                                       full_name)
          IN  /\ repositories' = rows
              /\ fact_sheets' = db.fact_sheets
              /\ ai_discovery_data' = db.ai_discovery_data
              /\ next_uuid' = db.next_uuid
              /\ last_call' =
                     [last_call EXCEPT
                        ![full_name] = [called |-> TRUE,
                                        names |-> Range(components)]]
    /\ persist_calls' = persist_calls + 1
    /\ UNCHANGED dbpc
    /\ UNCHANGED <<wfvars, sigvars, discvars, batchvars, fetchvars, ctxvars,
                   depthvars, rescvars>>

NextPersist == create_repository

SpecPersist == InitPersist /\ [][NextPersist]_vars

(***************************************************************************)
(* The user-provided discovery context: merge_contexts and                 *)
(* format_context_for_prompt                                               *)
(***************************************************************************)
MaxChars == 3

\* the characters of the strings, and those str.strip() removes
Chars == {" ", "\n", "a", "b"}
Whitespace == {" ", "\n"}

Texts == SeqsUpTo(Chars, MaxChars)

\* Optional[str]
OptionalTexts == {NoneStr} \cup {[is_none |-> FALSE, text |-> t] : t \in Texts}

\* the values of max_chars: one the strings exceed, and the default
MaxCharsValues == {2, 4000}

\* str.lstrip()
RECURSIVE lstrip(_)
lstrip(t) ==
    IF t # <<>> /\ Head(t) \in Whitespace THEN lstrip(Tail(t)) ELSE t

\* str.strip()
strip(t) == Reverse(lstrip(Reverse(lstrip(t))))

\* the truth value of an Optional[str]: None and "" are false
truthy(s) == ~s.is_none /\ s.text # <<>>

\* (s or "")
or_empty(s) == IF truthy(s) THEN s.text ELSE <<>>

\* the pieces of the f-strings, each held as one character
OrganizationHeader == "## Organization Context\n"
RepositoryHeader == "\n\n## Repository Context\n"
PromptHeader == "\n## User-Provided Context\n...\n\n"
PromptFooter == "\n\n---\n"
TruncationMark == "\n... [context truncated]"

\* mutant: the repository context is put first
merge_contexts_repo_first(org_ctx, repo_ctx) ==
    LET org == strip(or_empty(org_ctx))
        repo == strip(or_empty(repo_ctx))
    IN  IF org = <<>> /\ repo = <<>> THEN <<>>
        ELSE IF org # <<>> /\ repo = <<>> THEN org
        ELSE IF repo # <<>> /\ org = <<>> THEN repo
        ELSE <<OrganizationHeader>> \o repo \o <<RepositoryHeader>> \o org

\* merge_contexts(org_context, repo_context)
merge_contexts(org_ctx, repo_ctx) ==
    LET org == strip(or_empty(org_ctx))
        repo == strip(or_empty(repo_ctx))
    IN  IF org = <<>> /\ repo = <<>> THEN <<>>
        ELSE IF org # <<>> /\ repo = <<>> THEN org
        ELSE IF repo # <<>> /\ org = <<>> THEN repo
        ELSE <<OrganizationHeader>> \o org \o <<RepositoryHeader>> \o repo

\* format_context_for_prompt(context, max_chars)
format_context_for_prompt(ctx, limit) ==
    IF ctx.is_none \/ ~truthy(ctx.merged_context) THEN <<>>
    ELSE LET merged == strip(ctx.merged_context.text)
             shown == IF Len(merged) > limit
                      THEN SubSeq(merged, 1, limit) \o <<TruncationMark>>
                      ELSE merged
         IN  <<PromptHeader>> \o shown \o <<PromptFooter>>

\* the contexts format_context_for_prompt is given: None, or a
\* DiscoveryContext with any merged_context
Contexts ==
    {[is_none |-> TRUE, merged_context |-> NoneStr]} \cup
    {[is_none |-> FALSE, merged_context |-> m] : m \in OptionalTexts}

InitMerge ==
    /\ pc = "idle"
    /\ executed = <<>>
    /\ repo_root_url = "https://github.com/acme/shop"
    /\ local_path = "none"
    /\ snapshot_exists = FALSE
    /\ deployable = FALSE
    /\ deployable_signal_files = <<>>
    /\ repo_type = "none"
    /\ repo_type_evidence = <<>>
    /\ self_built_software = <<>>
    /\ discovery_context = "none"
    /\ enriched = {}
    /\ phase = "idle"
    /\ scanned = <<>>
    /\ signals = <<>>
    /\ passes = 0
    /\ llm_responses = <<>>
    /\ attempted = <<>>
    /\ classifier_calls = <<>>
    /\ DiscoveryIdle
    /\ BatchIdle
    /\ FetchIdle
    /\ DbIdle
    /\ DepthIdle
    /\ RescanIdle
    /\ cpc = "call"
    /\ org_context \in OptionalTexts
    /\ repo_context \in OptionalTexts
    /\ context = [is_none |-> TRUE, merged_context |-> NoneStr]
    /\ max_chars = 4000
    /\ returned_text = <<>>

\* a call of merge_contexts
merge_contexts_call ==
    /\ cpc = "call"
    /\ returned_text' = merge_contexts(org_context, repo_context)
    /\ cpc' = "returned"
    /\ UNCHANGED <<org_context, repo_context, context, max_chars>>
    /\ UNCHANGED <<wfvars, sigvars, discvars, batchvars, fetchvars, dbvars,
                   depthvars, rescvars>>

NextMerge == merge_contexts_call

SpecMerge == InitMerge /\ [][NextMerge]_vars

InitFormat ==
    /\ pc = "idle"
    /\ executed = <<>>
    /\ repo_root_url = "https://github.com/acme/shop"
    /\ local_path = "none"
    /\ snapshot_exists = FALSE
    /\ deployable = FALSE
    /\ deployable_signal_files = <<>>
    /\ repo_type = "none"
    /\ repo_type_evidence = <<>>
    /\ self_built_software = <<>>
    /\ discovery_context = "none"
    /\ enriched = {}
    /\ phase = "idle"
    /\ scanned = <<>>
    /\ signals = <<>>
    /\ passes = 0
    /\ llm_responses = <<>>
    /\ attempted = <<>>
    /\ classifier_calls = <<>>
    /\ DiscoveryIdle
    /\ BatchIdle
    /\ FetchIdle
    /\ DbIdle
    /\ DepthIdle
    /\ RescanIdle
    /\ cpc = "call"
    /\ org_context = NoneStr
    /\ repo_context = NoneStr
    /\ context \in Contexts
    /\ max_chars \in MaxCharsValues
    /\ returned_text = <<>>

\* a call of format_context_for_prompt
format_context_for_prompt_call ==
    /\ cpc = "call"
    /\ returned_text' = format_context_for_prompt(context, max_chars)
    /\ cpc' = "returned"
    /\ UNCHANGED <<org_context, repo_context, context, max_chars>>
    /\ UNCHANGED <<wfvars, sigvars, discvars, batchvars, fetchvars, dbvars,
                   depthvars, rescvars>>

NextFormat == format_context_for_prompt_call

SpecFormat == InitFormat /\ [][NextFormat]_vars

(***************************************************************************)
(* SpecRescan: the detection stage with the second scan that               *)
(* has_service_deployment_workflow_llm makes for the classifier's context  *)
(***************************************************************************)
MaxRescanned == 2

\* mutant: the files of all signals are handed over
strong_signals_context_all(rescan) ==
    [i \in DOMAIN rescan |-> i]

\* all_signals = detect_deployment_signals(repo_path) and the files of its
\* strong signals
strong_signals_context(rescan) ==
    strong_signal_files(detect_deployment_signals(rescan), 1)

InitRescan ==
    /\ pc = "idle"
    /\ executed = <<>>
    /\ repo_root_url = "https://github.com/acme/shop"
    /\ local_path = "/tmp/shop"
    /\ snapshot_exists = TRUE
    /\ deployable = FALSE
    /\ deployable_signal_files = <<>>
    /\ repo_type = "none"
    /\ repo_type_evidence = <<>>
    /\ self_built_software = <<>>
    /\ discovery_context = "none"
    /\ enriched = {}
    /\ phase = "scanned"
    /\ scanned \in SeqsUpTo(ScannerSignals, MaxRescanned)
    /\ signals = scanned
    /\ passes = 0
    /\ llm_responses = <<>>
    /\ attempted = <<>>
    /\ classifier_calls = <<>>
    /\ DiscoveryIdle
    /\ BatchIdle
    /\ FetchIdle
    /\ DbIdle
    /\ ContextIdle
    /\ DepthIdle
    /\ snapshot_changed = FALSE
    /\ classifier_context = <<>>

\* deployment_signals_detection_runnable with the scan repeated inside
\* has_service_deployment_workflow_llm: the snapshot is the same at both
\* scans, or a file that gives one more signal was added in between
RunSignalDetectionWithRescan ==
    /\ phase = "scanned"
    /\ passes = 0
    /\ \E outcome \in OutcomesFor(scanned), changed \in BOOLEAN,
          added \in ScannerSignals :
          LET r == deployment_signals_detection(
                       local_path, snapshot_exists, deployable,
                       deployable_signal_files, scanned, outcome)
              rescan == IF changed THEN Append(scanned, added) ELSE scanned
              fallback ==
                  ~_evaluate_deployment_signals(
                       detect_deployment_signals(scanned))
          IN  /\ deployable' = r.deployable
              /\ deployable_signal_files' = r.files
              /\ signals' = r.signals
              /\ attempted' = r.attempted
              /\ classifier_calls' = r.calls
              /\ llm_responses' = outcome
              /\ phase' = IF r.raised THEN "raised" ELSE "done"
              /\ snapshot_changed' = (fallback /\ changed)
              /\ classifier_context' =
                     IF fallback THEN strong_signals_context(rescan)
                     ELSE <<>>
    /\ UNCHANGED <<scanned, passes>>
    /\ UNCHANGED <<pc, executed, repo_root_url, local_path, snapshot_exists,
                   repo_type, repo_type_evidence, self_built_software,
                   discovery_context, enriched>>
    /\ UNCHANGED <<discvars, batchvars, fetchvars, dbvars, ctxvars,
                   depthvars>>

NextRescan == RunSignalDetectionWithRescan

SpecRescan == InitRescan /\ [][NextRescan]_vars

(***************************************************************************)
(* The depth bound of the two repo-type classifiers, on one file           *)
(***************************************************************************)
MaxDirDepth == 4

\* names of directories; d.startswith('.') holds of ".ci" alone
EntryDirNames == {"svc", "lib", ".ci"}

is_hidden(name) == name \in {".ci"}

EntryFilenames == {"package.json", "Dockerfile", "README.md"}

BUILD_MANIFESTS == {"package.json"}

DOCKERFILE_NAMES == {"Dockerfile"}

\* if filename in BUILD_MANIFESTS: ... elif filename in DOCKERFILE_NAMES:
hit_kind(filename) ==
    IF filename \in BUILD_MANIFESTS THEN "manifest"
    ELSE IF filename \in DOCKERFILE_NAMES THEN "docker"
    ELSE "none"

\* get_depth(root, state.local_path) for the directory holding the file:
\* 0 for the root, else the number of segments of its relative path
get_depth(dirs) == Len(dirs)

\* depth(entry.path) of the tool: the number of segments of the file's path
depth(dirs) == Len(dirs) + 1

\* os.walk yields the directory and its files are looked at: no directory
\* on the way was removed from dirs[:] as hidden, and the directory is not
\* deeper than 3 (a deeper one is left by "continue" and not descended)
runnable_walks(dirs) ==
    /\ \A i \in DOMAIN dirs : ~is_hidden(dirs[i])
    /\ ~(get_depth(dirs) > 3)

\* the tool looks at every blob whose path has at most 3 segments
tool_looks(dirs) == ~(depth(dirs) > 3)

InitDepth ==
    /\ pc = "idle"
    /\ executed = <<>>
    /\ repo_root_url = "https://github.com/acme/shop"
    /\ local_path = "none"
    /\ snapshot_exists = FALSE
    /\ deployable = FALSE
    /\ deployable_signal_files = <<>>
    /\ repo_type = "none"
    /\ repo_type_evidence = <<>>
    /\ self_built_software = <<>>
    /\ discovery_context = "none"
    /\ enriched = {}
    /\ phase = "idle"
    /\ scanned = <<>>
    /\ signals = <<>>
    /\ passes = 0
    /\ llm_responses = <<>>
    /\ attempted = <<>>
    /\ classifier_calls = <<>>
    /\ DiscoveryIdle
    /\ BatchIdle
    /\ FetchIdle
    /\ DbIdle
    /\ ContextIdle
    /\ RescanIdle
    /\ tpc = "listed"
    /\ entry_dirs \in SeqsUpTo(EntryDirNames, MaxDirDepth)
    /\ entry_filename \in EntryFilenames
    /\ runnable_hit = "pending"
    /\ tool_hit = "pending"

\* classify_repo_type_runnable on the file
classify_repo_type_runnable_file ==
    /\ tpc = "listed"
    /\ runnable_hit = "pending"
    /\ runnable_hit' = IF runnable_walks(entry_dirs)
                       THEN hit_kind(entry_filename) ELSE "none"
    /\ UNCHANGED <<tpc, entry_dirs, entry_filename, tool_hit>>
    /\ UNCHANGED <<wfvars, sigvars, discvars, batchvars, fetchvars, dbvars,
                   ctxvars, rescvars>>

\* classify_repo_type_tool on the file's tree entry
classify_repo_type_tool_entry ==
    /\ tpc = "listed"
    /\ tool_hit = "pending"
    /\ tool_hit' = IF tool_looks(entry_dirs)
                   THEN hit_kind(entry_filename) ELSE "none"
    /\ UNCHANGED <<tpc, entry_dirs, entry_filename, runnable_hit>>
    /\ UNCHANGED <<wfvars, sigvars, discvars, batchvars, fetchvars, dbvars,
                   ctxvars, rescvars>>

NextDepth ==
    \/ classify_repo_type_runnable_file
    \/ classify_repo_type_tool_entry

SpecDepth == InitDepth /\ [][NextDepth]_vars

(***************************************************************************)
(* SpecPipeline: the state handed from signal detection through repo-type  *)
(* classification to service discovery                                     *)
(***************************************************************************)
\* signal.file_path: the file the scanner matched for the signal
signal_file_path(s) ==
    CASE s.category = "ci_cd" -> ".github/workflows/ci.yml"
      [] s.category = "containerization" -> "Dockerfile"
      [] OTHER -> "Procfile"

\* the hit counts the repo-type classifier is run on: one that scores
\* single-purpose-repo and one that scores mono-repo
PipelineHits == {<<1, 1, 1>>, <<3, 0, 3>>}

InitPipeline ==
    /\ pc = "idle"
    /\ executed = <<>>
    /\ repo_root_url = "https://github.com/acme/shop"
    /\ local_path = "/tmp/shop"
    /\ snapshot_exists = TRUE
    /\ deployable = FALSE
    /\ deployable_signal_files = <<>>
    /\ repo_type = "none"
    /\ repo_type_evidence = <<>>
    /\ self_built_software = <<>>
    /\ discovery_context = "none"
    /\ enriched = {}
    /\ phase = "scanned"
    /\ scanned \in SeqsUpTo(ScannerSignals, MaxSignals)
    /\ signals = scanned
    /\ passes = 0
    /\ llm_responses = <<>>
    /\ attempted = <<>>
    /\ classifier_calls = <<>>
    /\ dphase = "idle"
    /\ walk_stack = <<>>
    /\ walk_visited = 0
    /\ package_dirs \in {l \in PackageDirLists : Len(l) = 7}
    /\ processed_dirs = {package_dirs[i].path : i \in DOMAIN package_dirs}
    /\ walk_files = <<>>
    /\ walk_pruned = {}
    /\ file_content =
           [f \in SignalPaths |-> [status |-> "ok", lines |-> {"services:"}]]
    /\ referenced_dirs = {}
    /\ services = <<>>
    /\ discovery_agent_calls = 0
    /\ llm_discovered = <<>>
    /\ BatchIdle
    /\ RestIdle

\* classify_repo_type_runnable on the state the detection stage left
classify_after_detection ==
    /\ phase = "done"
    /\ deployable
    /\ repo_type = "none"
    /\ \E hits \in PipelineHits :
          /\ repo_type' = classify_repo_type(hits[1], hits[2], hits[3])
          /\ repo_type_evidence' = hits
    /\ UNCHANGED <<pc, executed, repo_root_url, local_path, snapshot_exists,
                   deployable, deployable_signal_files, self_built_software,
                   discovery_context, enriched>>
    /\ UNCHANGED <<sigvars, discvars, batchvars, restvars>>

\* sbs_name_discovery_runnable hands state.deployable_signal_files to
\* discover_services_by_deployment_signals, whose Step 2 analyses them
discover_after_classification ==
    /\ repo_type = "mono-repo"
    /\ dphase = "idle"
    /\ referenced_dirs' =
           _analyze_cicd_references(
               file_content,
               [i \in DOMAIN deployable_signal_files |->
                   signal_file_path(signals[deployable_signal_files[i]])],
               package_dirs)
    /\ dphase' = "analyzed"
    /\ UNCHANGED <<walk_stack, walk_visited, package_dirs, processed_dirs,
                   walk_files, walk_pruned, file_content, services,
                   discovery_agent_calls, llm_discovered>>
    /\ UNCHANGED <<wfvars, sigvars, batchvars, restvars>>

NextPipeline ==
    \/ RunSignalDetection
    \/ classify_after_detection
    \/ discover_after_classification
    \/ create_services_step

SpecPipeline == InitPipeline /\ [][NextPipeline]_vars

(***************************************************************************)
(* Properties of the workflow graph (checked under Spec)                   *)
(***************************************************************************)
RunEnded == pc \in {"END", "RAISED"}

MonoRepoOrder ==
    <<"clone_repo_tool_runnable", "load_context_runnable",
      "deployment_signals_detection_runnable", "classify_repo_type_runnable",
      "sbs_name_discovery_runnable", "languages_service_agent",
      "extract_team_owners_agent", "individual_contributors_service_agent",
      "detect_tech_stack_runnable", "delete_repo_runnable">>

SinglePurposeOrder ==
    [MonoRepoOrder EXCEPT ![5] = "single_purpose_repo_inspector_runnable"]

EnrichmentStages ==
    {"languages_service_agent", "extract_team_owners_agent",
     "individual_contributors_service_agent", "detect_tech_stack_runnable"}

\* C1: a run in which the clone succeeded does not end before the cleanup
\* stage has executed, whichever path it took and whichever stage failed.
C1_CleanupOnEveryPath ==
    (RunEnded /\ local_path # "none") =>
        "delete_repo_runnable" \in Range(executed)

\* C2: when signal detection left deployable False, repo-type
\* classification, mono-repo discovery and single-purpose collapse do not
\* run, and the only stage after signal detection is cleanup.
C2_NonDeployableSkipsToCleanup ==
    \A i \in DOMAIN executed :
        (executed[i] = "deployment_signals_detection_runnable" /\ ~deployable)
        => /\ \A j \in DOMAIN executed :
                 j > i => executed[j] = "delete_repo_runnable"
           /\ pc \in {"delete_repo_runnable", "END", "RAISED"}
           /\ Range(executed) \cap
                 {"classify_repo_type_runnable", "sbs_name_discovery_runnable",
                  "single_purpose_repo_inspector_runnable"} = {}

\* C2 witness: a non-deployable run that went from detection to cleanup
C2_Witness ==
    /\ pc = "END"
    /\ ~deployable
    /\ executed = <<"clone_repo_tool_runnable", "load_context_runnable",
                    "deployment_signals_detection_runnable",
                    "delete_repo_runnable">>

\* C3: a deployable run has, when it ends, executed exactly the prescribed
\* stages, once each and in order, with mono-repo discovery iff the repo
\* type is mono-repo, and has reached END.
C3_DeployableOrder ==
    (RunEnded /\ deployable) =>
        /\ pc = "END"
        /\ executed = IF repo_type = "mono-repo"
                      THEN MonoRepoOrder
                      ELSE SinglePurposeOrder

\* C4: no enrichment stage lets a failure escape: a run never ends by an
\* exception raised in language detection, owner extraction, contributor
\* attachment or tech-stack detection.
C4_EnrichmentFailuresCaught ==
    pc = "RAISED" => Last(executed) \notin EnrichmentStages

\* the score as the claim states it
ClaimScore(m, d, k) ==
    (CASE m >= 3 -> 2
       [] m = 2 /\ k > 1 -> 1
       [] OTHER -> 0)
    + (CASE d > 1 -> 2 [] OTHER -> 0)
    + (CASE k >= 3 -> 2
         [] k = 2 -> 1
         [] OTHER -> 0)

\* C10: the repo type recorded with the counters (manifest_hits,
\* dockerfile_hits, dirs_with_hits) is mono-repo iff the score of the
\* counters is at least 3; (2,0,2), (3,0,1) and (1,1,1) are single-purpose
\* and (3,0,3) is mono-repo.
C10_RepoTypeScore ==
    repo_type_evidence # <<>> =>
        LET m == repo_type_evidence[1]
            d == repo_type_evidence[2]
            k == repo_type_evidence[3]
        IN  /\ repo_type = IF ClaimScore(m, d, k) >= 3
                           THEN "mono-repo"
                           ELSE "single-purpose-repo"
            /\ repo_type_evidence \in {<<2, 0, 2>>, <<3, 0, 1>>, <<1, 1, 1>>}
                  => repo_type = "single-purpose-repo"
            /\ repo_type_evidence = <<3, 0, 3>> => repo_type = "mono-repo"

\* C10 witness: two manifests in two directories stay single-purpose
C10_Witness ==
    /\ repo_type_evidence = <<2, 0, 2>>
    /\ repo_type = "single-purpose-repo"
    /\ "classify_repo_type_runnable" \in Range(executed)

\* C11: within one run the repo-type classification is computed at most
\* once, and once the classifier has set repo_type no later step changes
\* it, the single-purpose collapse included.
C11_RepoTypeImmutable ==
    [][/\ repo_type # "none" => repo_type' = repo_type
       /\ Cardinality({i \in DOMAIN executed' :
              executed'[i] = "classify_repo_type_runnable"}) <= 1]_vars

\* C11 witness: the collapse has run on a classified repository with a
\* URL that parses, and the repo type is the one the classifier set
C11_Witness ==
    /\ "classify_repo_type_runnable" \in Range(executed)
    /\ "single_purpose_repo_inspector_runnable" \in Range(executed)
    /\ parse_github_url_to_repo_full_name(repo_root_url) # "ValueError"
    /\ repo_type = "single-purpose-repo"
    /\ self_built_software # <<>>

(***************************************************************************)
(* Properties of the single-purpose collapse (checked under SpecCollapse)  *)
(***************************************************************************)
\* the last path segment of each URL
LastPathSegment(url) ==
    CASE url = "https://github.com/acme/shop" -> "shop"
      [] url = "https://github.com/acme/shop.git" -> "shop.git"
      [] url = "https://github.com/acme/shop/tree/main" -> "main"
      [] url = "https://gitlab.com/acme/shop" -> "shop"
      [] url = "https://github.com/acme" -> "acme"

\* the URLs of the form https://github.com/<owner>/<repo>[.git][/...]
GithubOwnerRepoUrls ==
    {"https://github.com/acme/shop", "https://github.com/acme/shop.git",
     "https://github.com/acme/shop/tree/main"}

\* the <repo> segment of such a URL without a trailing ".git"
RepoSegment(url) ==
    CASE url = "https://github.com/acme/shop" -> "shop"
      [] url = "https://github.com/acme/shop.git" -> "shop"
      [] url = "https://github.com/acme/shop/tree/main" -> "shop"

CollapseRan == "single_purpose_repo_inspector_runnable" \in Range(executed)

ExclusionFilterMatches(d) ==
    _should_skip_directory(d) \/ _is_generated_or_derived_directory(d)

\* C13: no path in the finder's result has a directory component that the
\* directory-exclusion filter matches, also when an excluded directory
\* holds a recognized package-manager file.
C13_NoExcludedComponent ==
    \A i \in DOMAIN package_dirs :
        \A j \in DOMAIN package_dirs[i].path :
            ~ExclusionFilterMatches(package_dirs[i].path[j])

\* C13 witness: node_modules held a manifest and was pruned, the directory
\* next to it was recorded, and the walk came to its end
C13_Witness ==
    /\ dphase = "found"
    /\ \E e \in walk_pruned :
          e.path = <<"api", "node_modules">> /\ e.holds_manifest
    /\ \E i \in DOMAIN package_dirs : package_dirs[i].path = <<"api">>

\* the recognized manifests of a listing, in listing order
ClaimManifests(files) == SelectSeq(files, _is_package_manager_file)

\* the manifest the claim selects
ClaimSelected(files) ==
    LET m == Range(ClaimManifests(files))
    IN  CASE "package.json" \in m -> "package.json"
          [] "project.json" \in m -> "project.json"
          [] "pom.xml" \in m -> "pom.xml"
          [] "build.gradle" \in m -> "build.gradle"
          [] "go.mod" \in m -> "go.mod"
          [] "Cargo.toml" \in m -> "Cargo.toml"
          [] OTHER -> ClaimManifests(files)[1]

\* C14: the finder's result has at most one entry per directory path, and
\* the entry recorded for a directory names the first of package.json,
\* project.json, pom.xml, build.gradle, go.mod, Cargo.toml that the
\* directory holds, or the first manifest found when it holds none of them.
C14_OneEntryPriorityOrder ==
    /\ [](\A i, j \in DOMAIN package_dirs :
             package_dirs[i].path = package_dirs[j].path => i = j)
    /\ [][Len(package_dirs') = Len(package_dirs) + 1 =>
             Last(package_dirs').package_file = ClaimSelected(walk_files')]_vars

\* C14 witness: two directories are recorded, one by priority against the
\* listing order and one by first found
C14_Witness ==
    /\ dphase = "found"
    /\ Len(package_dirs) = 2
    /\ package_dirs[1].package_file = "pom.xml"
    /\ package_dirs[2].package_file = "setup.py"
    /\ walk_files = <<"setup.py", "requirements.txt">>

(***************************************************************************)
(* Properties of the mono-repo service discovery (checked under            *)
(* SpecDiscovery)                                                          *)
(***************************************************************************)
Analyzed == dphase \in {"analyzed", "done", "raised"}

\* the referenced set of one file analysed alone
AnalysedAlone(file) ==
    _analyze_cicd_references(file_content, <<file>>, package_dirs)

\* C15: the referenced-directory set of a list of signal files is the union
\* of the sets of its files analysed alone, and the same for the list in
\* the opposite order, also when a file is missing or cannot be read.
C15_UnionOfPerFileSets ==
    Analyzed =>
        /\ referenced_dirs =
              UNION {AnalysedAlone(deployable_signal_files[i]) :
                        i \in DOMAIN deployable_signal_files}
        /\ referenced_dirs =
              _analyze_cicd_references(
                  file_content, Reverse(deployable_signal_files),
                  package_dirs)

\* C15 witness: the first file cannot be read, the second references two
\* directories, and both are in the result
C15_Witness ==
    /\ dphase = "analyzed"
    /\ Len(deployable_signal_files) = 2
    /\ _is_cicd_file(deployable_signal_files[1])
    /\ file_content[deployable_signal_files[1]].status = "unreadable"
    /\ AnalysedAlone(deployable_signal_files[2]) = {<<"api">>, <<"web">>}
    /\ referenced_dirs = {<<"api">>, <<"web">>}

\* C16: with four or more referenced directories the discovery agent is
\* not called and the components are exactly one "high" component per
\* referenced directory; with three or fewer the agent is called once and
\* the components are those of its answer, item by item.
C16_AuthoritativeFromFour ==
    dphase \in {"done", "raised"} =>
        IF Cardinality(referenced_dirs) >= 4
        THEN /\ discovery_agent_calls = 0
             /\ \A d \in referenced_dirs :
                   Cardinality({i \in DOMAIN services :
                                   services[i].path = d}) = 1
             /\ \A i \in DOMAIN services :
                   /\ services[i].path \in referenced_dirs
                   /\ services[i].confidence = "high"
        ELSE /\ discovery_agent_calls = 1
             /\ Len(services) = Len(llm_discovered)
             /\ \A i \in DOMAIN services :
                   /\ services[i].path = llm_discovered[i].path
                   /\ services[i].name = llm_discovered[i].name
                   /\ services[i].confidence = llm_discovered[i].confidence

\* C16 witness: exactly four referenced directories gave four components
\* without a call of the agent
C16_Witness ==
    /\ dphase = "done"
    /\ Cardinality(referenced_dirs) = 4
    /\ Len(services) = 4
    /\ discovery_agent_calls = 0

\* C17: a candidate directory that _is_infrastructure_directory classifies
\* as infrastructure is never in the referenced-directory set, whatever
\* the CI/CD files hold.
C17_InfrastructureNeverReferenced ==
    \A i \in DOMAIN package_dirs :
        _is_infrastructure_directory(package_dirs[i].path)
            => package_dirs[i].path \notin referenced_dirs

\* C17 witness: a CI/CD file names libs/ui and deploy next to api, and only
\* api is referenced
C17_Witness ==
    /\ dphase = "analyzed"
    /\ \E i \in DOMAIN deployable_signal_files :
          /\ _is_cicd_file(deployable_signal_files[i])
          /\ file_content[deployable_signal_files[i]].lines =
                {"context: libs/ui", "working-directory: api"}
    /\ \E i \in DOMAIN package_dirs : package_dirs[i].path = <<"libs", "ui">>
    /\ referenced_dirs = {<<"api">>}

\* the line holds, in lower case, the directory's path, its basename or one
\* of its path segments ("." for the root)
Mentions(dir_path, line) ==
    CASE dir_path = <<"api">> -> line \in {"working-directory: api"}
      [] dir_path = <<"web">> -> line \in {"cd web"}
      [] dir_path = <<"deploy">> -> line \in {"kubectl apply -f deploy"}
      [] dir_path = <<"libs", "ui">> ->
            line \in {"nx build cart", "context: libs/ui"}
      [] dir_path = <<"services", "cart">> ->
            line \in {"nx build cart", "path: services/pay", "services:"}
      [] dir_path = <<"services", "pay">> ->
            line \in {"path: services/pay", "services:"}
      [] OTHER -> FALSE

\* C27: whether a directory is referenced depends only on strings derived
\* from it: a directory is in the referenced set only if some analysed
\* CI/CD file holds, case-insensitively, its path, its basename or one of
\* its path segments.
C27_ReferencedOnlyIfMentioned ==
    Analyzed =>
        \A dir_path \in referenced_dirs :
            \E i \in DOMAIN deployable_signal_files :
                LET file == deployable_signal_files[i]
                IN  /\ _is_cicd_file(file)
                    /\ file_content[file].status = "ok"
                    /\ \E line \in file_content[file].lines :
                          Mentions(dir_path, lower(line))

(***************************************************************************)
(* Properties of the hand-over from detection to discovery (checked under  *)
(* SpecPipeline)                                                           *)
(***************************************************************************)
\* the detection stage made the repository deployable by the answer of the
\* workflow classifier
DeployableByFallback ==
    /\ phase = "done"
    /\ deployable
    /\ \E k \in DOMAIN classifier_calls :
          classifier_calls[k].result = "deployment"

\* C28: when deployable was set True by the workflow-classifier fallback,
\* deployable_signal_files is empty; if the repository is then classified
\* mono-repo, the referenced-directory set is empty and service discovery
\* takes the LLM branch, never the authoritative one.
C28_FallbackLeadsToLlmDiscovery ==
    DeployableByFallback =>
        /\ deployable_signal_files = <<>>
        /\ Analyzed => referenced_dirs = {}
        /\ dphase \in {"done", "raised"} => discovery_agent_calls = 1
        /\ dphase = "done" => services = llm_components(llm_discovered)

\* C28 witness: a mono-repo made deployable by the fallback, whose
\* components are those the discovery agent answered
C28_Witness ==
    /\ DeployableByFallback
    /\ repo_type = "mono-repo"
    /\ dphase = "done"
    /\ referenced_dirs = {}
    /\ discovery_agent_calls = 1
    /\ Len(services) = 2

(***************************************************************************)
(* Properties of the discover batch loop (checked under SpecBatch)         *)
(***************************************************************************)
BetweenRepositories == bpc \in {"loop_top", "summary", "exited"} /\ exit_code # 3

\* C18: an error in one repository is caught at the loop boundary: the
\* repository is recorded once in the errors with its URL, failed counts
\* the recorded errors, a batch that was not interrupted has started every
\* repository, and every started repository is counted exactly once, as
\* failed or as processed (deployable + non_deployable =
\* total_repositories).
C18_FailureCountedOnce ==
    BetweenRepositories =>
        /\ stats.failed = Len(errors)
        /\ \A i, j \in DOMAIN errors :
              /\ errors[i][1] \in Range(repos)
              /\ errors[i][1] = errors[j][1] => i = j
        /\ stats.deployable + stats.non_deployable = stats.total_repositories
        /\ stats.failed + stats.total_repositories = idx
        /\ (bpc = "summary" /\ ~interrupted) => idx = Len(repos)

\* C19 as stated: after the interrupt flag has been set no further
\* pipeline is started, the pipelines that were started have finished when
\* the loop is left, and the command exits with 130.
C19_NoStartAfterFlag ==
    interrupted =>
        /\ invoked = signal_at.invoked
        /\ bpc = "summary" => idx = invoked
        /\ (bpc = "exited" /\ exit_code # 3) => exit_code = 130

\* C19 amended: after the interrupt flag has been set no further pipeline
\* is started, except the one of an iteration whose check of the flag had
\* already passed when the signal arrived; the pipelines that were started
\* have finished when the loop is left; and the command exits with 130,
\* unless the export to the --output file fails, which exits with 1.
C19_NoStartAfterFlagObserved ==
    interrupted =>
        /\ invoked <= signal_at.invoked
                         + (IF signal_at.bpc = "try" THEN 1 ELSE 0)
        /\ bpc = "summary" => idx = invoked
        /\ (bpc = "exited" /\ exit_code # 3) =>
              exit_code = IF exported = "failed" THEN 1 ELSE 130

\* C19 witness: the signal arrived while the first pipeline was running,
\* that pipeline finished and was counted, no other was started although
\* repositories were left, and the exit code is 130
C19_Witness ==
    /\ bpc = "exited"
    /\ interrupted
    /\ signal_at = [bpc |-> "running", invoked |-> 1]
    /\ invoked = 1
    /\ Len(repos) > 1
    /\ stats.total_repositories = 1
    /\ exit_code = 130

\* C20: in dry-run mode no persistence operation is ever performed, and
\* every repository whose pipeline has run still moves one of the
\* deployable / non_deployable / failed counters.
C20_DryRunNoPersistence ==
    /\ [](dry_run => db_ops = {})
    /\ [][(dry_run /\ bpc = "running" /\ bpc' = "loop_top") =>
             stats'.deployable + stats'.non_deployable + stats'.failed
                 > stats.deployable + stats.non_deployable + stats.failed]_vars

\* C20 witness: a dry run that ended with a deployable, a non-deployable
\* and a failed repository and no persistence operation
C20_Witness ==
    /\ dry_run
    /\ bpc = "exited"
    /\ stats.deployable = 1
    /\ stats.non_deployable = 1
    /\ stats.failed = 1
    /\ stats.total_repositories = 2
    /\ db_ops = {}

\* C21: a failure of the snapshot deletion in the cleanup stage does not
\* affect the recorded result: the repository whose cleanup failed is still
\* persisted and counted as processed, so no repository is recorded as
\* failed because shutil.rmtree failed.
C21_CleanupFailureStillProcessed ==
    \A i \in DOMAIN errors : errors[i][2] # "rmtree"

(***************************************************************************)
(* Properties of fetch_github_repos (checked under SpecFetch)              *)
(***************************************************************************)
Retried == {"rate_limited", "connection_error"}

\* the wait the claim prescribes after the i-th response: none after a
\* response that is not retried, 1 after the first of a run of retried
\* responses, and twice the previous wait, at most 60, after each further
\* one
RECURSIVE ClaimWait(_)
ClaimWait(i) ==
    IF responses[i] \notin Retried THEN 0
    ELSE IF i = 1 \/ responses[i - 1] \notin Retried THEN 1
    ELSE IF 2 * ClaimWait(i - 1) > 60 THEN 60 ELSE 2 * ClaimWait(i - 1)

LinkedNames(full_name) ==
    {f.fact_sheet_name :
        f \in {g \in fact_sheets :
                  g.repository_id = get_repository(repositories, full_name)}}

\* C23: after any sequence of create_repository calls there is at most one
\* Repository row per full name, and the fact sheets linked to a repository
\* are exactly the components, by name, of the most recent call for that
\* repository.
C23_ReplacePerRepository ==
    \A full_name \in FullNames :
        /\ Cardinality({i \in DOMAIN repositories :
                           repositories[i] = full_name}) <= 1
        /\ last_call[full_name].called =>
              LinkedNames(full_name) = last_call[full_name].names

(***************************************************************************)
(* Properties of the discovery context (checked under SpecFormat and       *)
(* SpecMerge)                                                              *)
(***************************************************************************)
\* an optional string that is None, empty or whitespace only
Absent(s) == s.is_none \/ \A i \in DOMAIN s.text : s.text[i] \in Whitespace

\* a text without its leading and trailing whitespace: the part from the
\* first to the last character that is not whitespace
Stripped(t) ==
    LET solid == {i \in DOMAIN t : t[i] \notin Whitespace}
    IN  IF solid = {} THEN <<>>
        ELSE SubSeq(t, CHOOSE i \in solid : \A j \in solid : i <= j,
                       CHOOSE i \in solid : \A j \in solid : j <= i)

\* C24: format_context_for_prompt returns the empty string whenever the
\* context is None or its merged_context is None, empty or whitespace only,
\* and a non-empty block holding the "## User-Provided Context" header only
\* when merged_context has content that is not whitespace.
C24_EmptyUnlessContent ==
    cpc = "returned" =>
        IF context.is_none \/ Absent(context.merged_context)
        THEN returned_text = <<>>
        ELSE returned_text # <<>> /\ PromptHeader \in Range(returned_text)

\* C25: merge_contexts treats None, empty and whitespace-only inputs as
\* absent: it returns "" when both are absent, the stripped content of the
\* only one present, and the organization header, the stripped organization
\* content, the repository header and the stripped repository content, in
\* this order, when both are present.
C25_MergeContexts ==
    cpc = "returned" =>
        returned_text =
            CASE Absent(org_context) /\ Absent(repo_context) -> <<>>
              [] ~Absent(org_context) /\ Absent(repo_context) ->
                    Stripped(org_context.text)
              [] Absent(org_context) /\ ~Absent(repo_context) ->
                    Stripped(repo_context.text)
              [] OTHER ->
                    <<OrganizationHeader>> \o Stripped(org_context.text)
                    \o <<RepositoryHeader>> \o Stripped(repo_context.text)

(***************************************************************************)
(* Properties of the depth bound (checked under SpecDepth)                 *)
(***************************************************************************)
Counted(hit) == hit \in {"manifest", "docker"}

\* C26: for a manifest or Dockerfile that is not under a hidden directory,
\* the runnable counts it if and only if the tool counts it, that is, if
\* and only if its relative path has at most 3 segments.
C26_SameDepthBound ==
    (/\ runnable_hit # "pending" /\ tool_hit # "pending"
     /\ entry_filename \in BUILD_MANIFESTS \cup DOCKERFILE_NAMES
     /\ \A i \in DOMAIN entry_dirs : ~is_hidden(entry_dirs[i]))
    => /\ Counted(runnable_hit) <=> Counted(tool_hit)
       /\ Counted(runnable_hit) <=> Len(entry_dirs) + 1 <= 3

\* C25 witness: both contexts present with whitespace around their content
C25_Witness ==
    /\ cpc = "returned"
    /\ org_context = [is_none |-> FALSE, text |-> <<" ", "a", "\n">>]
    /\ repo_context = [is_none |-> FALSE, text |-> <<"\n", "b", "a">>]
    /\ returned_text =
           <<OrganizationHeader, "a", RepositoryHeader, "b", "a">>

(***************************************************************************)
(* Properties of the signal classifier and the deployability decision      *)
(* (checked under SpecSignals)                                             *)
(***************************************************************************)
HasStrong(sigs) == \E i \in DOMAIN sigs : sigs[i].strength = "strong"

\* C5: for a snapshot that exists, deployable after the detection stage is
\* True exactly when some classified signal is strong or some call of the
\* workflow classifier returned "deployment"; every call is made for a
\* ci_cd signal of medium or strong strength.
C5_DeployableIff ==
    (phase = "done" /\ local_path # "none" /\ snapshot_exists) =>
        /\ deployable <=>
              \/ HasStrong(signals)
              \/ \E k \in DOMAIN classifier_calls :
                    classifier_calls[k].result = "deployment"
        /\ \A k \in DOMAIN classifier_calls :
              /\ classifier_calls[k].file \in DOMAIN signals
              /\ signals[classifier_calls[k].file].category = "ci_cd"
              /\ signals[classifier_calls[k].file].strength
                    \in {"medium", "strong"}

\* C5 witness: no strong signal, and the fallback made the repository
\* deployable
C5_Witness ==
    /\ phase = "done"
    /\ snapshot_exists
    /\ ~HasStrong(signals)
    /\ deployable
    /\ classifier_calls # <<>>

\* C6: the workflow classifier is not invoked when a strong signal exists
\* (deployable is True) and not invoked when there is no signal at all
\* (deployable is False).
C6_NoFallbackOnCheapPath ==
    (phase = "done" /\ snapshot_exists) =>
        /\ HasStrong(signals) =>
              (deployable /\ classifier_calls = <<>> /\ attempted = <<>>)
        /\ signals = <<>> =>
              (~deployable /\ classifier_calls = <<>> /\ attempted = <<>>)

\* C6 witness: a strong ci_cd signal exists, the stage is over, nothing was
\* classified
C6_Witness ==
    /\ phase = "done"
    /\ snapshot_exists
    /\ \E i \in DOMAIN signals :
          signals[i].category = "ci_cd" /\ signals[i].strength = "strong"
    /\ deployable
    /\ classifier_calls = <<>>

\* C7: in the fallback a candidate that cannot be read or classified does
\* not stop the loop: every candidate before the first "deployment" answer
\* is entered, in order; the stage does not raise; deployable is False only
\* if no candidate answered "deployment".
C7_FallbackFailureNonFatal ==
    /\ phase # "raised"
    /\ (phase = "done" /\ snapshot_exists /\ ~HasStrong(signals)) =>
          LET cands == ci_cd_signals(signals, 1)
          IN  /\ Len(llm_responses) = Len(cands)
              /\ Len(attempted) <= Len(cands)
              /\ \A k \in DOMAIN attempted : attempted[k] = cands[k]
              /\ \A k \in DOMAIN cands :
                    (\A j \in 1..(k - 1) :
                        llm_responses[j] \notin {"deployment", "Deployment "})
                    => k \in DOMAIN attempted
              /\ ~deployable =>
                    \A k \in DOMAIN cands :
                        llm_responses[k] \notin {"deployment", "Deployment "}

\* C7 witness: a candidate failed and a later candidate was still classified
C7_Witness ==
    /\ phase = "done"
    /\ \E k \in DOMAIN llm_responses :
          /\ llm_responses[k] \in {"read_error", "llm_error"}
          /\ \E c \in DOMAIN classifier_calls :
                /\ k + 1 \in DOMAIN attempted
                /\ classifier_calls[c].file = attempted[k + 1]

\* the three presence flags as the claim states them, over the whole set
ClaimComponentCount(sigs) ==
    Cardinality(
        {f \in {"pm", "ci", "run"} :
            \E i \in DOMAIN sigs :
                \/ f = "pm" /\ sigs[i].category = "package_manager"
                \/ f = "ci" /\ sigs[i].category = "ci_cd"
                \/ f = "run" /\ sigs[i].category \in
                      {"containerization", "serverless",
                       "platform_specific", "kubernetes"}})

ClaimRelevant ==
    {"package_manager", "ci_cd", "containerization", "serverless",
     "platform_specific", "kubernetes"}

\* C8: after classification every signal's strength is fixed by the
\* component count of the whole set and the signal's category: relevant
\* categories strong at 3, medium at 2; the others medium at 3, weak at 2;
\* everything weak at 0 or 1, whatever the scanner assigned.
C8_GlobalReclassification ==
    (passes >= 1 \/ (phase = "done" /\ snapshot_exists)) =>
        LET n == ClaimComponentCount(scanned)
        IN  /\ Len(signals) = Len(scanned)
            /\ \A i \in DOMAIN signals :
                  /\ signals[i].category = scanned[i].category
                  /\ signals[i].strength =
                        IF n >= 3
                        THEN (IF signals[i].category \in ClaimRelevant
                              THEN "strong" ELSE "medium")
                        ELSE IF n = 2
                             THEN (IF signals[i].category \in ClaimRelevant
                                   THEN "medium" ELSE "weak")
                             ELSE "weak"

\* C8 witness: a content-based signal emitted medium ended weak because
\* only one component is present
C8_Witness ==
    /\ passes >= 1
    /\ \E i \in DOMAIN signals :
          /\ scanned[i].strength = "medium"
          /\ signals[i].strength = "weak"

\* C9: applying the strength classifier to its own output changes nothing.
C9_Idempotent ==
    [][(passes >= 1 /\ passes' = passes + 1) => signals' = signals]_vars

\* C9 witness: the classifier has been applied twice to a set in which the
\* first application changed a strength
C9_Witness ==
    /\ passes = 2
    /\ \E i \in DOMAIN signals : signals[i].strength # scanned[i].strength

\* C29: the workflow classifier is invoked only for signal sets with exactly
\* two of the three components present, CI/CD being one of them; with at
\* most one component present every signal ends weak, also a content-based
\* signal emitted medium, the classifier is not invoked and deployable is
\* False.
C29_FallbackNeedsTwoComponents ==
    (phase = "done" /\ snapshot_exists) =>
        /\ (classifier_calls # <<>> \/ attempted # <<>>) =>
              /\ ClaimComponentCount(scanned) = 2
              /\ \E i \in DOMAIN scanned : scanned[i].category = "ci_cd"
        /\ ClaimComponentCount(scanned) <= 1 =>
              /\ \A i \in DOMAIN signals : signals[i].strength = "weak"
              /\ classifier_calls = <<>>
              /\ attempted = <<>>
              /\ ~deployable

\* C29 witness: a repository with nothing but CI/CD workflows, one of them
\* with deployment keywords, went through detection
C29_Witness ==
    /\ phase = "done"
    /\ snapshot_exists
    /\ Len(scanned) = 2
    /\ \A i \in DOMAIN scanned : scanned[i].category = "ci_cd"
    /\ \E i \in DOMAIN scanned :
          scanned[i].signal_type = "deployment_step"
          /\ scanned[i].strength = "medium"
    /\ \A i \in DOMAIN signals : signals[i].strength = "weak"
    /\ ~deployable
    /\ classifier_calls = <<>>

(***************************************************************************)
(* Properties of the classifier's context (checked under SpecRescan)       *)
(***************************************************************************)
\* C30: whenever the workflow classifier is invoked on a snapshot that did
\* not change between the two scans, the list of strong-signal files handed
\* to it as context is empty.
C30_ContextEmptyOnSameSnapshot ==
    (phase = "done" /\ classifier_calls # <<>> /\ ~snapshot_changed) =>
        classifier_context = <<>>

\* C30 witness: the classifier was called for a workflow of a repository
\* with two components, on the same snapshot, with an empty context
C30_Witness ==
    /\ phase = "done"
    /\ ~snapshot_changed
    /\ Len(classifier_calls) = 1
    /\ ~HasStrong(signals)
    /\ \E i \in DOMAIN signals : signals[i].category = "package_manager"
    /\ classifier_context = <<>>

\* the context is not always empty: a Dockerfile added between the scans
\* completes the three components and the second scan finds strong signals
C30_ChangedSnapshotContext ==
    /\ phase = "done"
    /\ snapshot_changed
    /\ classifier_calls # <<>>
    /\ classifier_context # <<>>


====
